---- MODULE Spec2Model ----
(***************************************************************************)
(* Model of the column-alignment engine of src/lib/smart-alignment.ts      *)
(* (class SmartAlignmentEngine).                                           *)
(*                                                                         *)
(* A JavaScript string is modelled as a sequence of one-character strings, *)
(* so that normalisation, edit distance and substring tests are computed   *)
(* character by character as the code computes them.  A JavaScript number  *)
(* that is a score or a confidence is modelled as an exact fraction in     *)
(* lowest terms, [n |-> numerator, d |-> denominator].                     *)
(***************************************************************************)
EXTENDS Integers, Sequences, FiniteSets, TLC

\* ------------------------------------------------------------------------
\* Bounds of the model
\* ------------------------------------------------------------------------

\* Largest number of columns in sourceColumns and in targetColumns.
MaxCols == 2

\* Largest length of the strings enumerated for calculateStringSimilarity.
MaxStrLen == 2

\* ------------------------------------------------------------------------
\* Exact fractions
\* ------------------------------------------------------------------------

RECURSIVE GCD(_, _)
GCD(a, b) == IF b = 0 THEN a ELSE GCD(b, a % b)

\* The fraction n/d (d > 0, n >= 0) in lowest terms.
Frac(n, d) == LET g == GCD(n, d) IN [n |-> n \div g, d |-> d \div g]

Zero == Frac(0, 1)
One == Frac(1, 1)

FracAdd(x, y) == Frac(x.n * y.d + y.n * x.d, x.d * y.d)
FracMul(x, y) == Frac(x.n * y.n, x.d * y.d)
FracDivInt(x, k) == Frac(x.n, x.d * k)
FracGeq(x, y) == x.n * y.d >= y.n * x.d
FracGt(x, y) == x.n * y.d > y.n * x.d
FracLt(x, y) == x.n * y.d < y.n * x.d
FracMin(x, y) == IF FracLt(y, x) THEN y ELSE x

\* Math.round(x * 100) for a fraction x >= 0: round half up.
RoundPercent(x) == (200 * x.n + x.d) \div (2 * x.d)

Min3(a, b, c) == IF a <= b /\ a <= c THEN a ELSE IF b <= c THEN b ELSE c
Max2(a, b) == IF a >= b THEN a ELSE b

\* ------------------------------------------------------------------------
\* Characters and strings
\* ------------------------------------------------------------------------

UpperLetters ==
  << "A", "B", "C", "D", "E", "F", "G", "H", "I", "J", "K", "L", "M",
     "N", "O", "P", "Q", "R", "S", "T", "U", "V", "W", "X", "Y", "Z" >>

LowerLetters ==
  << "a", "b", "c", "d", "e", "f", "g", "h", "i", "j", "k", "l", "m",
     "n", "o", "p", "q", "r", "s", "t", "u", "v", "w", "x", "y", "z" >>

Digits == { "0", "1", "2", "3", "4", "5", "6", "7", "8", "9" }

Range(s) == { s[i] : i \in 1..Len(s) }

\* The characters the regular expression class [_\s-] matches.
SeparatorChars == { "_", " ", "\t", "-" }

\* The characters the regular expression class [a-z0-9] matches.
LowerAlnumChars == Range(LowerLetters) \cup Digits

\* String.prototype.toLowerCase on one character (ASCII letters fold; every
\* other character of the modelled alphabet is left alone).
ToLowerChar(c) ==
  IF \E k \in 1..26 : UpperLetters[k] = c
  THEN LowerLetters[CHOOSE k \in 1..26 : UpperLetters[k] = c]
  ELSE c

toLowerCase(str) == [i \in 1..Len(str) |-> ToLowerChar(str[i])]

NotSeparator(c) == c \notin SeparatorChars
IsLowerAlnum(c) == c \in LowerAlnumChars

\* normalizeColumnName: lower-case, delete every run of [_\s-], then delete
\* every character outside [a-z0-9].
normalizeColumnName(name) ==
  SelectSeq(SelectSeq(toLowerCase(name), NotSeparator), IsLowerAlnum)

\* ------------------------------------------------------------------------
\* calculateStringSimilarity
\* ------------------------------------------------------------------------

\* A mutant of MatrixCell: a substitution is charged even when the two
\* characters are equal.
MatrixCellAlwaysCharged(norm1, norm2, j, prev, row, i) ==
  Min3(row[i] + 1, prev[i + 1] + 1, prev[i] + 1)

\* matrix[j][i] from its left, upper and upper-left neighbours.
MatrixCell(norm1, norm2, j, prev, row, i) ==
  Min3(row[i] + 1, prev[i + 1] + 1,
       prev[i] + (IF norm1[i] = norm2[j] THEN 0 ELSE 1))

\* One row of the matrix: row j, filled from column 0 to column Len(norm1).
\* `row` holds the cells matrix[j][0 .. Len(row)-1] filled so far and `prev`
\* is the complete row j-1; both are 1-based sequences of the 0-based cells.
RECURSIVE FillRow(_, _, _, _, _)
FillRow(norm1, norm2, j, prev, row) ==
  IF Len(row) = Len(norm1) + 1
  THEN row
  ELSE FillRow(norm1, norm2, j, prev,
               Append(row, MatrixCell(norm1, norm2, j, prev, row, Len(row))))

\* Rows 1 .. Len(norm2) in order; the result is the last row.
RECURSIVE FillMatrix(_, _, _, _)
FillMatrix(norm1, norm2, j, prev) ==
  IF j > Len(norm2)
  THEN prev
  ELSE FillMatrix(norm1, norm2, j + 1, FillRow(norm1, norm2, j, prev, << j >>))

\* matrix[norm2.length][norm1.length] of the code: the Levenshtein distance.
LevenshteinDistance(norm1, norm2) ==
  FillMatrix(norm1, norm2, 1, [i \in 1..(Len(norm1) + 1) |-> i - 1])[Len(norm1) + 1]

\* 1 - distance / maxLength, or 1 when maxLength is 0.
SimilarityRatio(distance, maxLength) ==
  IF maxLength = 0 THEN One ELSE Frac(maxLength - distance, maxLength)

\* The body of calculateStringSimilarity after the two names are normalised.
SimilarityOfNormalized(norm1, norm2) ==
  IF norm1 = norm2 THEN One
  ELSE SimilarityRatio(LevenshteinDistance(norm1, norm2),
                       Max2(Len(norm1), Len(norm2)))

calculateStringSimilarity(str1, str2) ==
  SimilarityOfNormalized(normalizeColumnName(str1), normalizeColumnName(str2))

\* ------------------------------------------------------------------------
\* calculateSemanticSimilarity
\* ------------------------------------------------------------------------

\* The table of semantic groups, in the order Object.entries visits it.
semanticGroups == <<
  [ group |-> "id",
    keywords |-> <<
         << "i", "d" >>,
         << "i", "d", "e", "n", "t", "i", "f", "i", "e", "r" >>,
         << "k", "e", "y" >>,
         << "p", "k" >>,
         << "p", "r", "i", "m", "a", "r", "y" >>,
         << "u", "i", "d" >>,
         << "u", "u", "i", "d" >> >> ],
  [ group |-> "name",
    keywords |-> <<
         << "n", "a", "m", "e" >>,
         << "t", "i", "t", "l", "e" >>,
         << "l", "a", "b", "e", "l" >>,
         << "d", "e", "s", "c", "r", "i", "p", "t", "i", "o", "n" >>,
         << "d", "e", "s", "c" >> >> ],
  [ group |-> "date",
    keywords |-> <<
         << "d", "a", "t", "e" >>,
         << "t", "i", "m", "e" >>,
         << "t", "i", "m", "e", "s", "t", "a", "m", "p" >>,
         << "c", "r", "e", "a", "t", "e", "d" >>,
         << "u", "p", "d", "a", "t", "e", "d" >>,
         << "m", "o", "d", "i", "f", "i", "e", "d" >> >> ],
  [ group |-> "email",
    keywords |-> <<
         << "e", "m", "a", "i", "l" >>,
         << "m", "a", "i", "l" >>,
         << "a", "d", "d", "r", "e", "s", "s" >> >> ],
  [ group |-> "phone",
    keywords |-> <<
         << "p", "h", "o", "n", "e" >>,
         << "t", "e", "l" >>,
         << "t", "e", "l", "e", "p", "h", "o", "n", "e" >>,
         << "m", "o", "b", "i", "l", "e" >>,
         << "c", "e", "l", "l" >> >> ],
  [ group |-> "address",
    keywords |-> <<
         << "a", "d", "d", "r", "e", "s", "s" >>,
         << "l", "o", "c", "a", "t", "i", "o", "n" >>,
         << "s", "t", "r", "e", "e", "t" >>,
         << "c", "i", "t", "y" >>,
         << "s", "t", "a", "t", "e" >>,
         << "z", "i", "p" >>,
         << "p", "o", "s", "t", "a", "l" >> >> ],
  [ group |-> "amount",
    keywords |-> <<
         << "a", "m", "o", "u", "n", "t" >>,
         << "p", "r", "i", "c", "e" >>,
         << "c", "o", "s", "t" >>,
         << "v", "a", "l", "u", "e" >>,
         << "t", "o", "t", "a", "l" >>,
         << "s", "u", "m" >> >> ],
  [ group |-> "count",
    keywords |-> <<
         << "c", "o", "u", "n", "t" >>,
         << "n", "u", "m", "b", "e", "r" >>,
         << "n", "u", "m" >>,
         << "q", "u", "a", "n", "t", "i", "t", "y" >>,
         << "q", "t", "y" >> >> ],
  [ group |-> "status",
    keywords |-> <<
         << "s", "t", "a", "t", "u", "s" >>,
         << "s", "t", "a", "t", "e" >>,
         << "c", "o", "n", "d", "i", "t", "i", "o", "n" >>,
         << "f", "l", "a", "g" >> >> ] >>

\* A reason string: its fixed text, the number it interpolates (0 when it
\* has none) and the group name it interpolates ("" when it has none).
Reason(text, value, group) == [text |-> text, value |-> value, group |-> group]

\* String.prototype.includes: sub occurs in str as a contiguous substring.
includes(str, sub) ==
  \E k \in 0..(Len(str) - Len(sub)) :
    \A i \in 1..Len(sub) : str[k + i] = sub[i]

\* A mutant of SomeKeyword: only the first keyword of the group is tried.
SomeKeywordFirstOnly(keywords, norm) == includes(norm, keywords[1])

\* keywords.some((keyword) => norm.includes(keyword))
SomeKeyword(keywords, norm) ==
  \E k \in 1..Len(keywords) : includes(norm, keywords[k])

\* A mutant of SemanticOver: the break is outside the if, so the loop ends
\* at the first group a keyword of which the source name contains.
RECURSIVE SemanticOverBreakingEarly(_, _, _, _)
SemanticOverBreakingEarly(groups, g, sourceNorm, targetNorm) ==
  IF g > Len(groups)
  THEN [score |-> Zero, reasons |-> << >>]
  ELSE IF SomeKeyword(groups[g].keywords, sourceNorm)
       THEN IF SomeKeyword(groups[g].keywords, targetNorm)
            THEN [score |-> Frac(8, 10),
                  reasons |-> << Reason("Both columns relate to", 0, groups[g].group) >>]
            ELSE [score |-> Zero, reasons |-> << >>]
       ELSE SemanticOverBreakingEarly(groups, g + 1, sourceNorm, targetNorm)

\* The loop over the entries of the table groups from entry g on: the first
\* group both names match sets the score and the reason and breaks.
RECURSIVE SemanticOver(_, _, _, _)
SemanticOver(groups, g, sourceNorm, targetNorm) ==
  IF g > Len(groups)
  THEN [score |-> Zero, reasons |-> << >>]
  ELSE IF /\ SomeKeyword(groups[g].keywords, sourceNorm)
          /\ SomeKeyword(groups[g].keywords, targetNorm)
       THEN [score |-> Frac(8, 10),
             reasons |-> << Reason("Both columns relate to", 0, groups[g].group) >>]
       ELSE SemanticOver(groups, g + 1, sourceNorm, targetNorm)

\* The loop over the groups of semanticGroups from group g on.
SemanticFrom(g, sourceNorm, targetNorm) ==
  SemanticOver(semanticGroups, g, sourceNorm, targetNorm)

calculateSemanticSimilarity(sourceCol, targetCol) ==
  SemanticFrom(1, normalizeColumnName(sourceCol), normalizeColumnName(targetCol))

\* ------------------------------------------------------------------------
\* Cell values of the row data
\* ------------------------------------------------------------------------

\* A cell value is null, undefined, a string, a non-negative integer number
\* or a boolean.
NullValue == [t |-> "null"]
UndefinedValue == [t |-> "undefined"]
Str(chars) == [t |-> "string", s |-> chars]
Num(k) == [t |-> "number", v |-> k]
Bool(b) == [t |-> "boolean", b |-> b]

DigitSeq == << "0", "1", "2", "3", "4", "5", "6", "7", "8", "9" >>

\* The decimal digits of a non-negative integer.
RECURSIVE IntToChars(_)
IntToChars(k) ==
  IF k < 10 THEN << DigitSeq[k + 1] >>
  ELSE Append(IntToChars(k \div 10), DigitSeq[(k % 10) + 1])

\* The value of one decimal digit.
DigitValue(c) == (CHOOSE k \in 1..10 : DigitSeq[k] = c) - 1

\* String(value) for a value that is neither null nor undefined.
String(v) ==
  CASE v.t = "string" -> v.s
    [] v.t = "number" -> IntToChars(v.v)
    [] v.t = "boolean" ->
         IF v.b THEN << "t", "r", "u", "e" >> ELSE << "f", "a", "l", "s", "e" >>
    [] v.t = "null" -> << "n", "u", "l", "l" >>
    [] OTHER -> << "u", "n", "d", "e", "f", "i", "n", "e", "d" >>

WhiteSpaceChars == { " ", "\t" }

\* The string without its leading and trailing white space.
RECURSIVE Trim(_)
Trim(str) ==
  IF str = << >> THEN str
  ELSE IF Head(str) \in WhiteSpaceChars THEN Trim(Tail(str))
  ELSE IF str[Len(str)] \in WhiteSpaceChars THEN Trim(SubSeq(str, 1, Len(str) - 1))
  ELSE str

\* isNaN(Number(value)).  A string converts to a number when, trimmed, it is
\* empty (0) or a run of decimal digits; the modelled strings hold no sign,
\* decimal point, exponent, radix prefix or "Infinity".  A number is never
\* NaN here, true and false convert to 1 and 0, null to 0, undefined to NaN.
AllDigits(str) == \A i \in 1..Len(str) : str[i] \in Digits

NumberIsNaN(v) ==
  CASE v.t = "string" -> ~AllDigits(Trim(v.s))
    [] v.t = "undefined" -> TRUE
    [] OTHER -> FALSE

\* isNaN(Date.parse(str)) is false: the modelled strings parse as a date
\* exactly when they are an ISO calendar date YYYY-MM-DD.
DateParses(str) ==
  /\ Len(str) = 10
  /\ \A i \in {1, 2, 3, 4, 6, 7, 9, 10} : str[i] \in Digits
  /\ str[5] = "-" /\ str[8] = "-"
  /\ 10 * DigitValue(str[6]) + DigitValue(str[7]) \in 1..12
  /\ 10 * DigitValue(str[9]) + DigitValue(str[10]) \in 1..31

BooleanTokens ==
  { << "t", "r", "u", "e" >>, << "f", "a", "l", "s", "e" >>, << "1" >>, << "0" >> }

\* The type analyzeDataTypes gives one sampled value v, str being String(v).
TypeOf(v, str) ==
  IF v.t = "number" \/ ~NumberIsNaN(v) THEN "number"
  ELSE IF v.t = "boolean" \/ toLowerCase(str) \in BooleanTokens THEN "boolean"
  ELSE IF DateParses(str) THEN "date"
  ELSE "string"

TypeOfValue(v) == TypeOf(v, String(v))

\* The histogram of a sequence of type names: type -> count.
Histogram(types) ==
  [ty \in Range(types) |-> Cardinality({ i \in 1..Len(types) : types[i] = ty })]

\* analyzeDataTypes: the histogram type -> count of the sample.
analyzeDataTypes(sample) ==
  Histogram([i \in 1..Len(sample) |-> TypeOfValue(sample[i])])

\* Array.prototype.slice(0, n)
SliceTo(seq, n) == SubSeq(seq, 1, IF Len(seq) < n THEN Len(seq) ELSE n)

\* /\d{4}-\d{2}-\d{2}/.test(str): the pattern occurs somewhere in str.
HasDateFormat(str) ==
  \E k \in 0..(Len(str) - 10) :
    /\ \A i \in {1, 2, 3, 4, 6, 7, 9, 10} : str[k + i] \in Digits
    /\ str[k + 5] = "-" /\ str[k + 8] = "-"

Letters == Range(LowerLetters) \cup Range(UpperLetters)

\* A pattern tag; n is the length of a length_<n> tag and 0 otherwise.
Tag(name) == [tag |-> name, n |-> 0]

\* The pattern tags of the string str, whose characters are chars.
PatternsOf(str, chars) ==
      { [tag |-> "length", n |-> Len(str)] }
      \cup (IF str # << >> /\ chars \subseteq Digits
            THEN { Tag("all_digits") } ELSE {})
      \cup (IF str # << >> /\ chars \subseteq Letters
            THEN { Tag("all_letters") } ELSE {})
      \cup (IF str # << >> /\ chars \subseteq (Letters \cup Digits)
            THEN { Tag("alphanumeric") } ELSE {})
      \cup (IF chars \cap WhiteSpaceChars # {}
            THEN { Tag("contains_spaces") } ELSE {})
      \cup (IF "@" \in chars THEN { Tag("contains_at") } ELSE {})
      \cup (IF HasDateFormat(str) THEN { Tag("date_format") } ELSE {})

\* The pattern tags extractValuePatterns adds for one value.
PatternsOfValue(v) == PatternsOf(String(v), Range(String(v)))

\* The number of leading sampled values extractValuePatterns looks at.
PATTERN_VALUES == 20

\* extractValuePatterns: the distinct tags of the first 20 sampled values.
PatternsOfValues(values) ==
  UNION { PatternsOfValue(values[i]) : i \in 1..Len(values) }

\* A mutant of extractValuePatterns: the tags of all sampled values.
extractValuePatternsOfAll(sample) == PatternsOfValues(sample)

extractValuePatterns(sample) == PatternsOfValues(SliceTo(sample, PATTERN_VALUES))

\* ------------------------------------------------------------------------
\* calculatePatternSimilarity
\* ------------------------------------------------------------------------

\* sourceData / targetData: the optional array of rows.  Absent is the
\* argument left out (undefined); an array, even an empty one, is truthy.
Absent == [present |-> FALSE, rows |-> << >>]
Data(rows) == [present |-> TRUE, rows |-> rows]

\* The number of leading rows that are sampled.
SAMPLE_ROWS == 100

\* row[col]: undefined when the row has no such key.
Cell(row, col) == IF col \in DOMAIN row THEN row[col] ELSE UndefinedValue

\* v != null
NotNullish(v) == v.t \notin {"null", "undefined"}

\* A mutant of SampleOfRows: the null and undefined values are kept.
SampleOfRowsUnfiltered(rows, col) == [i \in 1..Len(rows) |-> Cell(rows[i], col)]

\* rows.map((row) => row[col]).filter((v) => v != null)
SampleOfRows(rows, col) ==
  SelectSeq([i \in 1..Len(rows) |-> Cell(rows[i], col)], NotNullish)

\* A mutant of Sample: all rows are sampled.
SampleOfAllRows(data, col) == SampleOfRows(data, col)

\* data.slice(0, 100).map((row) => row[col]).filter((v) => v != null)
Sample(data, col) == SampleOfRows(SliceTo(data, SAMPLE_ROWS), col)

\* new Set(sample.map((v) => String(v).toLowerCase()))
UniqueValues(sample) == { toLowerCase(String(sample[i])) : i \in 1..Len(sample) }

\* One of the three weighted contributions: nothing is added, and no reason
\* is given, when the overlap is 0.
Contribution(overlap, total, weight) ==
  IF overlap > 0 THEN FracMul(Frac(overlap, total), weight) ELSE Zero

ReasonIf(overlap, reason) == IF overlap > 0 THEN << reason >> ELSE << >>

\* The score and the reasons from the three overlaps and their denominators.
PatternFromCounts(typeOverlap, totalTypes, patternOverlap, maxPatterns, shared, maxUnique) ==
  [ score |->
      FracMin(FracAdd(FracAdd(Contribution(typeOverlap, totalTypes, Frac(4, 10)),
                              Contribution(patternOverlap, maxPatterns, Frac(3, 10))),
                      Contribution(shared, maxUnique, Frac(3, 10))),
              One),
    reasons |->
      ReasonIf(typeOverlap,
               Reason("Similar data types",
                      RoundPercent(Frac(typeOverlap, totalTypes)), ""))
      \o ReasonIf(patternOverlap, Reason("Similar value patterns", patternOverlap, ""))
      \o ReasonIf(shared, Reason("Common values", shared, "")) ]

\* The score and the reasons from the type keys, the pattern tags and the
\* distinct lower-cased values of the two samples.
PatternFromSets(sourceTypes, targetTypes, sourcePatterns, targetPatterns, sourceUnique, targetUnique) ==
  PatternFromCounts(
    Cardinality(sourceTypes \cap targetTypes),
    Cardinality(sourceTypes \cup targetTypes),
    Cardinality(sourcePatterns \cap targetPatterns),
    Max2(Cardinality(sourcePatterns), Cardinality(targetPatterns)),
    Cardinality(sourceUnique \cap targetUnique),
    Max2(Cardinality(sourceUnique), Cardinality(targetUnique)))

\* The score and reasons for two non-empty samples (lines 217-252).
PatternOfSamples(sourceSample, targetSample) ==
  PatternFromSets(
    DOMAIN analyzeDataTypes(sourceSample), DOMAIN analyzeDataTypes(targetSample),
    extractValuePatterns(sourceSample), extractValuePatterns(targetSample),
    UniqueValues(sourceSample), UniqueValues(targetSample))

\* The part of calculatePatternSimilarity after the samples are taken.
PatternOfSampled(sourceSample, targetSample) ==
  IF Len(sourceSample) = 0 \/ Len(targetSample) = 0
  THEN [score |-> Zero, reasons |-> << >>]
  ELSE PatternOfSamples(sourceSample, targetSample)

calculatePatternSimilarity(sourceCol, targetCol, sourceData, targetData) ==
  IF ~sourceData.present \/ ~targetData.present
  THEN [score |-> Zero, reasons |-> << >>]
  ELSE PatternOfSampled(Sample(sourceData.rows, sourceCol),
                        Sample(targetData.rows, targetCol))

\* ------------------------------------------------------------------------
\* analyzeColumnAlignment: the pieces of the four phases
\* ------------------------------------------------------------------------

EXACT_MATCH_THRESHOLD == One
\* A mutant of SIMILAR_MATCH_THRESHOLD: the threshold of the pattern phase.
SimilarThresholdLowered == Frac(6, 10)

SIMILAR_MATCH_THRESHOLD == Frac(8, 10)
\* A mutant of PATTERN_MATCH_THRESHOLD: the weight of the type overlap.
PatternThresholdLowered == Frac(4, 10)

PATTERN_MATCH_THRESHOLD == Frac(6, 10)
\* A mutant of SEMANTIC_MATCH_THRESHOLD: a threshold above the semantic score.
SemanticThresholdRaised == Frac(9, 10)

SEMANTIC_MATCH_THRESHOLD == Frac(7, 10)

\* The truthiness of a string: every string but the empty one.
Truthy(str) == str # << >>

\* A mutant of IsExactCandidate: the used target columns are not skipped.
IsExactCandidateIgnoringUsed(sourceCol, targetCol, used) ==
  normalizeColumnName(sourceCol) = normalizeColumnName(targetCol)

\* The predicate of targetColumns.find in phase 1.
IsExactCandidate(sourceCol, targetCol, used) ==
  /\ targetCol \notin used
  /\ normalizeColumnName(sourceCol) = normalizeColumnName(targetCol)

\* The least element of a set of positions, 0 for the empty set.
FirstOf(positions) ==
  IF positions = {} THEN 0 ELSE CHOOSE k \in positions : \A l \in positions : k <= l

\* targetColumns.find(...): the position of the first target column that
\* satisfies the predicate, 0 when find returns undefined.
FindExact(sourceCol, targets, used) ==
  FirstOf({ k \in 1..Len(targets) : IsExactCandidate(sourceCol, targets[k], used) })

\* if (exactMatch), for the position k that find returned: find returned a
\* column and that column is a truthy string.
ExactMatchTaken(targets, k) == k # 0 /\ Truthy(targets[k])

\* The match phase 1 pushes.
ExactMatchRecord(sourceCol, targetCol) ==
  [ sourceColumn |-> sourceCol,
    targetColumn |-> targetCol,
    confidence |-> EXACT_MATCH_THRESHOLD,
    reasons |-> << Reason("Exact column name match", 0, "") >>,
    type |-> "exact" ]

\* matches.find((m) => m.sourceColumn === col) finds a match.
HasSourceMatch(ms, col) == \E m \in 1..Len(ms) : ms[m].sourceColumn = col

\* A mutant of FilterUnmatchedSource: nothing is filtered out.
FilterNoSource(cols, ms) == cols

\* sourceColumns.filter((col) => !matches.find((m) => m.sourceColumn === col))
RECURSIVE FilterUnmatchedSource(_, _)
FilterUnmatchedSource(cols, ms) ==
  IF cols = << >> THEN << >>
  ELSE IF HasSourceMatch(ms, Head(cols))
       THEN FilterUnmatchedSource(Tail(cols), ms)
       ELSE << Head(cols) >> \o FilterUnmatchedSource(Tail(cols), ms)

\* A mutant of FilterUnusedTarget: the test is applied to all but the last
\* target column, which is always reported.
FilterUnusedTargetButLast(cols, used) ==
  IF cols = << >> THEN << >>
  ELSE SelectSeq(SubSeq(cols, 1, Len(cols) - 1), LAMBDA c : c \notin used)
       \o << cols[Len(cols)] >>

\* targetColumns.filter((col) => !usedTargetColumns.has(col))
RECURSIVE FilterUnusedTarget(_, _)
FilterUnusedTarget(cols, used) ==
  IF cols = << >> THEN << >>
  ELSE IF Head(cols) \in used
       THEN FilterUnusedTarget(Tail(cols), used)
       ELSE << Head(cols) >> \o FilterUnusedTarget(Tail(cols), used)

PhaseThreshold(phase) ==
  CASE phase = "similar" -> SIMILAR_MATCH_THRESHOLD
    [] phase = "pattern" -> PATTERN_MATCH_THRESHOLD
    [] phase = "semantic" -> SEMANTIC_MATCH_THRESHOLD

\* A mutant of SimilarScore: the reason is never pushed.
SimilarScoreWithoutReason(similarity) == [ score |-> similarity, reasons |-> << >> ]

\* The score of phase 2 with the reasons array of the inner loop.
SimilarScore(similarity) ==
  [ score |-> similarity,
    reasons |->
      IF FracGeq(similarity, SIMILAR_MATCH_THRESHOLD)
      THEN << Reason("High name similarity", RoundPercent(similarity), "") >>
      ELSE << >> ]

\* The score and the reasons one pair gets in a phase.
PhaseScore(phase, sourceCol, targetCol, sData, tData) ==
  CASE phase = "similar" -> SimilarScore(calculateStringSimilarity(sourceCol, targetCol))
    [] phase = "pattern" -> calculatePatternSimilarity(sourceCol, targetCol, sData, tData)
    [] phase = "semantic" -> calculateSemanticSimilarity(sourceCol, targetCol)

\* bestMatch before the inner loop: null.
NoBest == [found |-> FALSE, column |-> << >>, score |-> Zero, reasons |-> << >>]

\* A mutant of Replaces: an equal score replaces the best match too.
ReplacesOnTie(best, score) == ~best.found \/ FracGeq(score, best.score)

\* if (!bestMatch || score > bestMatch.score)
Replaces(best, score) == ~best.found \/ FracGt(score, best.score)

\* One pass of the inner loop body for an unused target column whose score
\* is sc: bestMatch afterwards.
Consider(phase, targetCol, sc, best) ==
  IF FracGeq(sc.score, PhaseThreshold(phase)) /\ Replaces(best, sc.score)
  THEN [ found |-> TRUE, column |-> targetCol, score |-> sc.score,
         reasons |-> sc.reasons ]
  ELSE best

\* The inner loop over targetColumns from position k on.
RECURSIVE ScanTargets(_, _, _, _, _, _, _, _)
ScanTargets(phase, sourceCol, targets, used, sData, tData, k, best) ==
  IF k > Len(targets) THEN best
  ELSE IF targets[k] \in used
       THEN ScanTargets(phase, sourceCol, targets, used, sData, tData, k + 1, best)
       ELSE ScanTargets(phase, sourceCol, targets, used, sData, tData, k + 1,
                        Consider(phase, targets[k],
                                 PhaseScore(phase, sourceCol, targets[k], sData, tData),
                                 best))

\* bestMatch after the inner loop of one source column.
BestMatch(phase, sourceCol, targets, used, sData, tData) ==
  ScanTargets(phase, sourceCol, targets, used, sData, tData, 1, NoBest)

\* The match phases 2 to 4 push.
BestMatchRecord(phase, sourceCol, best) ==
  [ sourceColumn |-> sourceCol,
    targetColumn |-> best.column,
    confidence |-> best.score,
    reasons |-> best.reasons,
    type |-> phase ]

\* matches.reduce((sum, match) => sum + match.confidence, 0)
RECURSIVE SumConfidence(_)
SumConfidence(ms) ==
  IF ms = << >> THEN Zero
  ELSE FracAdd(SumConfidence(SubSeq(ms, 1, Len(ms) - 1)), ms[Len(ms)].confidence)

\* A mutant of overallConfidence: the sum is not divided by the length.
overallConfidenceUndivided(ms) == SumConfidence(ms)

\* A mutant of overallConfidence: the division is not guarded, and 0 / 0
\* is NaN.
overallConfidenceUnguarded(ms) ==
  IF Len(ms) > 0 THEN FracDivInt(SumConfidence(ms), Len(ms)) ELSE [n |-> 0, d |-> 0]

overallConfidence(ms) ==
  IF Len(ms) > 0 THEN FracDivInt(SumConfidence(ms), Len(ms)) ELSE Zero

\* ------------------------------------------------------------------------
\* The inputs that are explored
\* ------------------------------------------------------------------------

\* Largest number of rows in a generated data set.
MaxRows == 1

SeqsUpTo(S, n) == UNION { [1..k -> S] : k \in 0..n }

nEmpty == << >>
nUnderscore == << "_" >>
nDash == << "-" >>
nEmail == << "E", "m", "a", "i", "l" >>
nEMail == << "E", "-", "M", "a", "i", "l" >>
nEmails == << "E", "m", "a", "i", "l", "s" >>
nEmaal == << "E", "m", "a", "a", "l" >>
nEmaals == << "E", "m", "a", "a", "l", "s" >>
nEmial == << "E", "m", "i", "a", "l" >>
nCustEmail == << "c", "u", "s", "t", "_", "e", "m", "a", "i", "l" >>
nContactMail == << "c", "o", "n", "t", "a", "c", "t", "_", "m", "a", "i", "l" >>
nCustomerID == << "C", "u", "s", "t", "o", "m", "e", "r", "_", "I", "D" >>
nCustomerid == << "c", "u", "s", "t", "o", "m", "e", "r", "i", "d" >>
nName == << "N", "a", "m", "e" >>
nP == << "p" >>
nQ == << "q" >>
nX == << "x" >>
nY == << "y" >>

\* Column names of the source file and of the target file.  A header line of
\* a CSV file may hold an empty name and may repeat a name.
SourceNames == { nUnderscore, nEmail, nEmaals, nCustEmail }
TargetNames == { nEmpty, nDash, nEMail, nEmails, nEmaal, nContactMail }

\* Calls without row data: every pair of column lists over the names.
NameCalls ==
  { [ src |-> s, tgt |-> t, sdata |-> Absent, tdata |-> Absent ] :
      s \in SeqsUpTo(SourceNames, MaxCols), t \in SeqsUpTo(TargetNames, MaxCols) }

\* The example of two exact matches, the example of a misspelt name and
\* the example of two names of one semantic group.
ExampleCalls ==
  { [ src |-> << nCustomerID, nName >>, tgt |-> << nCustomerid, nName >>,
      sdata |-> Absent, tdata |-> Absent ],
    [ src |-> << nEmial >>, tgt |-> << nEmail >>,
      sdata |-> Absent, tdata |-> Absent ],
    [ src |-> << nCustEmail >>, tgt |-> << nContactMail >>,
      sdata |-> Absent, tdata |-> Absent ] }

v12 == Str(<< "1", "2" >>)
v7 == Str(<< "7" >>)
vab == Str(<< "a", "b" >>)
vEmptyString == Str(<< >>)

ValuePool == { v12, v7, vab }

\* The row that gives the i-th column of cols the i-th value of vals.
MakeRow(cols, vals) ==
  [ c \in Range(cols) |-> vals[CHOOSE i \in 1..Len(cols) : cols[i] = c] ]

\* The column lists of the calls with row data.
DataColumns ==
  { [ src |-> << nP, nQ >>, tgt |-> << nX, nY >> ],
    [ src |-> << nEmail, nQ >>, tgt |-> << nEmails, nY >> ] }

\* The values of the two source columns, row by row.
SourceValueRows ==
  { << >>,
    << << v12, vab >> >>,
    << << v7, v12 >> >>,
    << << v12, v12 >> >>,
    << << NullValue, vEmptyString >> >>,
    << << v12, vab >>, << v7, UndefinedValue >> >> }

SourceDataFor(cols) ==
  { Absent } \cup
  { Data([i \in 1..Len(vr) |-> MakeRow(cols, vr[i])]) : vr \in SourceValueRows }

TargetDataFor(cols) ==
  { Absent } \cup
  { Data(rows) : rows \in SeqsUpTo([Range(cols) -> ValuePool], MaxRows) }

DataCalls ==
  UNION { { [ src |-> c.src, tgt |-> c.tgt, sdata |-> sd, tdata |-> td ] :
              sd \in SourceDataFor(c.src), td \in TargetDataFor(c.tgt) } :
          c \in DataColumns }

\* Data sets of n rows: the first 100 rows hold the values head, the rows
\* after them the values tail.
LongRows(cols, n, head, tail) ==
  [ i \in 1..n |-> MakeRow(cols, IF i <= 100 THEN head ELSE tail) ]

\* Calls with data sets of 100 rows and more, which differ after row 100.
LongCalls ==
  { [ src |-> << nP, nQ >>, tgt |-> << nX, nY >>,
      sdata |-> Data(LongRows(<< nP, nQ >>, n, << v12, vab >>, st)),
      tdata |-> Data(LongRows(<< nX, nY >>, m, << v12, vab >>, tt)) ] :
      n \in { 100, 101, 102 }, m \in { 1, 101 },
      st \in { << vab, v12 >>, << v7, v7 >> },
      tt \in { << vab, v12 >>, << v12, vab >> } }

\* A call whose data sets hold a column of empty strings: the cells of a
\* CSV line that has nothing between two commas.
EmptyValueCalls ==
  { [ src |-> << nP, nQ >>, tgt |-> << nX, nY >>,
      sdata |-> Data(<< MakeRow(<< nP, nQ >>, << NullValue, vEmptyString >>) >>),
      tdata |-> Data(<< MakeRow(<< nX, nY >>, << v12, vEmptyString >>) >>) ] }

\* A call whose source data has 21 rows, the last of which holds other
\* values than the 20 rows before it.
TwentyOneRowCalls ==
  { [ src |-> << nP, nQ >>, tgt |-> << nX, nY >>,
      sdata |-> Data([ i \in 1..21 |->
                         MakeRow(<< nP, nQ >>,
                                 IF i <= 20 THEN << v12, vab >> ELSE << vab, v12 >>) ]),
      tdata |-> Data(<< MakeRow(<< nX, nY >>, << v12, vab >>) >>) ] }

\* Calls with an empty column list and with row data.
EmptyListCalls ==
  { [ src |-> c.src, tgt |-> c.tgt,
      sdata |-> Data(<< MakeRow(<< nP, nQ >>, << v12, vab >>) >>),
      tdata |-> Data(<< MakeRow(<< nX, nY >>, << v12, vab >>) >>) ] :
      c \in { [ src |-> << >>, tgt |-> << nX, nY >> ],
               [ src |-> << nP, nQ >>, tgt |-> << >> ],
               [ src |-> << >>, tgt |-> << >> ] } }

Calls ==
  NameCalls \cup ExampleCalls \cup DataCalls \cup LongCalls \cup EmptyValueCalls
  \cup TwentyOneRowCalls \cup EmptyListCalls

\* ------------------------------------------------------------------------
\* analyzeColumnAlignment as a state machine
\* ------------------------------------------------------------------------

VARIABLES
  sourceColumns,      \* argument
  targetColumns,      \* argument
  sourceData,         \* argument
  targetData,         \* argument
  matches,            \* const matches: ColumnMatch[]
  usedTargetColumns,  \* const usedTargetColumns = new Set<string>()
  pc,                 \* the loop that is running, or "done" after the return
  remaining,          \* the array the running loop iterates over
  idx,                \* the position of the next element of remaining
  result,             \* the returned AlignmentSuggestion
  probe,              \* one call of calculateStringSimilarity on its own
  earlier,            \* the calls that returned before this one began
  userMatches,        \* SmartAlignmentPanel: useState(initialMatches)
  autoAcceptHighConfidence,  \* SmartAlignmentPanel: useState(true)
  isAnalyzing,        \* SmartAlignmentPanel: useState(false)
  suggestion,         \* SmartAlignmentPanel: useState(null)
  analyses,           \* SmartAlignmentPanel: the calls of analyzeSuggestions
                      \* that wait for their timer, oldest first
  wfStatus,           \* WorkflowManager: status of the stored workflow
  wfSteps,            \* WorkflowManager: the array steps of the stored workflow
  nextId,             \* WorkflowManager: the next fresh step id
  wfPc,               \* executeWorkflow: "idle", at its await, or settled
  loopSteps,          \* executeWorkflow: the array the for-of loop iterates
  aliased,            \* executeWorkflow: that array is the stored array
  loopIdx,            \* executeWorkflow: position of the loop in loopSteps
  results,            \* executeWorkflow: const results
  completedCalls      \* executeWorkflow: the calls of onStepComplete

\* The state of the component SmartAlignmentPanel.
panelVars ==
  << userMatches, autoAcceptHighConfidence, isAnalyzing, suggestion, analyses >>

\* The state of the class WorkflowManager and of a call of executeWorkflow.
workflowVars ==
  << wfStatus, wfSteps, nextId, wfPc, loopSteps, aliased, loopIdx, results,
     completedCalls >>

vars == << sourceColumns, targetColumns, sourceData, targetData, matches,
           usedTargetColumns, pc, remaining, idx, result, probe, earlier,
           panelVars, workflowVars >>

\* What a run of analyzeColumnAlignment never assigns: its arguments, the
\* call of calculateStringSimilarity that is explored on its own, the
\* calls that returned earlier, and the state of the panel and of the
\* workflows.
args ==
  << sourceColumns, targetColumns, sourceData, targetData, probe, earlier,
     panelVars, workflowVars >>

\* const [suggestion, setSuggestion] = useState<AlignmentSuggestion | null>(null)
NoSuggestion == [ present |-> FALSE, matches |-> << >> ]

\* No panel is mounted.
NoPanel ==
  /\ userMatches = << >>
  /\ autoAcceptHighConfidence = TRUE
  /\ isAnalyzing = FALSE
  /\ suggestion = NoSuggestion
  /\ analyses = << >>

\* private static workflows = new Map(): no workflow is stored and no call
\* of executeWorkflow has been made.
NoWorkflow ==
  /\ wfStatus = "none"
  /\ wfSteps = << >>
  /\ nextId = 1
  /\ wfPc = "idle"
  /\ loopSteps = << >>
  /\ aliased = FALSE
  /\ loopIdx = 0
  /\ results = << >>
  /\ completedCalls = << >>

NoProbe == [ str1 |-> << >>, str2 |-> << >>, called |-> FALSE, value |-> Zero ]

NoResult ==
  [ matches |-> << >>, unmatchedSource |-> << >>, unmatchedTarget |-> << >>,
    confidence |-> Zero ]

Init ==
  \E c \in Calls :
    /\ sourceColumns = c.src
    /\ targetColumns = c.tgt
    /\ sourceData = c.sdata
    /\ targetData = c.tdata
    /\ matches = << >>
    /\ usedTargetColumns = {}
    /\ pc = "exact"
    /\ remaining = c.src
    /\ idx = 1
    /\ result = NoResult
    /\ probe = NoProbe
    /\ earlier = << >>
    /\ NoPanel
    /\ NoWorkflow

\* The body of the phase 1 loop after find has returned position k.
ExactOutcome(sourceCol, k) ==
  IF ExactMatchTaken(targetColumns, k)
  THEN /\ matches' = Append(matches, ExactMatchRecord(sourceCol, targetColumns[k]))
       /\ usedTargetColumns' = usedTargetColumns \cup { targetColumns[k] }
  ELSE UNCHANGED << matches, usedTargetColumns >>

\* One iteration of the phase 1 loop (lines 32-49).
ExactStep ==
  /\ pc = "exact"
  /\ idx <= Len(remaining)
  /\ ExactOutcome(remaining[idx],
                  FindExact(remaining[idx], targetColumns, usedTargetColumns))
  /\ idx' = idx + 1
  /\ UNCHANGED << args, pc, remaining, result >>

\* A mutant of BestOutcome: the match is put in front of the matches
\* (unshift) instead of behind them (push).
BestOutcomeInFront(phase, sourceCol, best) ==
  IF best.found
  THEN /\ matches' = << BestMatchRecord(phase, sourceCol, best) >> \o matches
       /\ usedTargetColumns' = usedTargetColumns \cup { best.column }
  ELSE UNCHANGED << matches, usedTargetColumns >>

\* The end of an outer loop body of phase 2, 3 or 4: if (bestMatch) { ... }.
BestOutcome(phase, sourceCol, best) ==
  IF best.found
  THEN /\ matches' = Append(matches, BestMatchRecord(phase, sourceCol, best))
       /\ usedTargetColumns' = usedTargetColumns \cup { best.column }
  ELSE UNCHANGED << matches, usedTargetColumns >>

\* One iteration of the outer loop of phase 2, 3 or 4.
BestStep(phase) ==
  /\ pc = phase
  /\ idx <= Len(remaining)
  /\ BestOutcome(phase, remaining[idx],
                 BestMatch(phase, remaining[idx], targetColumns, usedTargetColumns,
                           sourceData, targetData))
  /\ idx' = idx + 1
  /\ UNCHANGED << args, pc, remaining, result >>

\* A loop has ended: the next phase filters the source columns it will visit.
EnterPhase(from, to) ==
  /\ pc = from
  /\ idx > Len(remaining)
  /\ pc' = to
  /\ remaining' = FilterUnmatchedSource(sourceColumns, matches)
  /\ idx' = 1
  /\ UNCHANGED << args, matches, usedTargetColumns, result >>

EnterSimilar == EnterPhase("exact", "similar")
EnterPattern == EnterPhase("similar", "pattern")
EnterSemantic == EnterPhase("pattern", "semantic")

\* The value the function returns (lines 144-155).
Suggestion(srcCols, tgtCols, ms, used) ==
  [ matches |-> ms,
    unmatchedSource |-> FilterUnmatchedSource(srcCols, ms),
    unmatchedTarget |-> FilterUnusedTarget(tgtCols, used),
    confidence |-> overallConfidence(ms) ]

\* The last loop has ended: build the result and return.
Return ==
  /\ pc = "semantic"
  /\ idx > Len(remaining)
  /\ result' = Suggestion(sourceColumns, targetColumns, matches, usedTargetColumns)
  /\ pc' = "done"
  /\ UNCHANGED << args, matches, usedTargetColumns, remaining, idx >>

\* The outer loops of phases 2, 3 and 4 (lines 54-82, 87-112, 117-142).
SimilarStep == BestStep("similar")
PatternStep == BestStep("pattern")
SemanticStep == BestStep("semantic")

Next ==
  \/ ExactStep
  \/ EnterSimilar
  \/ SimilarStep
  \/ EnterPattern
  \/ PatternStep
  \/ EnterSemantic
  \/ SemanticStep
  \/ Return

Spec == Init /\ [][Next]_vars

\* ------------------------------------------------------------------------
\* calculateStringSimilarity on its own, over all short strings
\* ------------------------------------------------------------------------

SimAlphabet == { "a", "b", "A", "_" }

\* Pairs of names that are longer than MaxStrLen.
SimExamples ==
  { << nEmail, nEmails >>, << nEmail, nEmaal >>, << nEMail, nEmail >>,
    << nEmaals, nEmaal >>, << nDash, nUnderscore >> }

SimPairs ==
  (SeqsUpTo(SimAlphabet, MaxStrLen) \X SeqsUpTo(SimAlphabet, MaxStrLen))
  \cup SimExamples

InitSim ==
  /\ \E pair \in SimPairs :
       probe = [ str1 |-> pair[1], str2 |-> pair[2], called |-> FALSE, value |-> Zero ]
  /\ sourceColumns = << >>
  /\ targetColumns = << >>
  /\ sourceData = Absent
  /\ targetData = Absent
  /\ matches = << >>
  /\ usedTargetColumns = {}
  /\ pc = "idle"
  /\ remaining = << >>
  /\ idx = 1
  /\ result = NoResult
  /\ earlier = << >>
  /\ NoPanel
  /\ NoWorkflow

\* The call calculateStringSimilarity(str1, str2) returns.
SimilarityCall ==
  /\ ~probe.called
  /\ pc = "idle"
  /\ probe' = [ probe EXCEPT !.called = TRUE,
                             !.value = calculateStringSimilarity(probe.str1, probe.str2) ]
  /\ UNCHANGED << sourceColumns, targetColumns, sourceData, targetData, matches,
                  usedTargetColumns, pc, remaining, idx, result, earlier,
                  panelVars, workflowVars >>

NextSim == SimilarityCall

SpecSim == InitSim /\ [][NextSim]_vars

\* ------------------------------------------------------------------------
\* calculateSemanticSimilarity on its own, next to analyzeColumnAlignment
\* ------------------------------------------------------------------------

\* Column names for calculateSemanticSimilarity: names with a keyword of
\* each group, names with keywords of two groups ("Address", "State",
\* "validate", "Summary_Date"), names that hold a keyword by accident
\* ("valid"), and names without any keyword.
SemNames ==
  { << >>,
    << "f", "o", "o" >>,
    << "U", "s", "e", "r", "_", "I", "D" >>,
    << "u", "u", "i", "d" >>,
    << "v", "a", "l", "i", "d" >>,
    << "v", "a", "l", "i", "d", "a", "t", "e" >>,
    << "F", "u", "l", "l", " ", "N", "a", "m", "e" >>,
    << "T", "i", "t", "l", "e" >>,
    << "C", "r", "e", "a", "t", "e", "d", "_", "A", "t" >>,
    << "S", "u", "m", "m", "a", "r", "y", "_", "D", "a", "t", "e" >>,
    nCustEmail,
    nContactMail,
    << "A", "d", "d", "r", "e", "s", "s" >>,
    << "C", "i", "t", "y" >>,
    << "S", "t", "a", "t", "e" >>,
    << "S", "t", "a", "t", "u", "s" >>,
    << "f", "l", "a", "g" >>,
    << "P", "h", "o", "n", "e" >>,
    << "c", "e", "l", "l" >>,
    << "T", "o", "t", "a", "l" >>,
    << "p", "r", "i", "c", "e" >>,
    << "q", "t", "y" >>,
    << "N", "u", "m", "-", "I", "t", "e", "m", "s" >> }

NoSemantic == [score |-> Zero, reasons |-> << >>]

InitSem ==
  \/ Init
  \/ /\ \E s \in SemNames, t \in SemNames :
            probe = [ str1 |-> s, str2 |-> t, called |-> FALSE, value |-> NoSemantic ]
     /\ sourceColumns = << >>
     /\ targetColumns = << >>
     /\ sourceData = Absent
     /\ targetData = Absent
     /\ matches = << >>
     /\ usedTargetColumns = {}
     /\ pc = "idle"
     /\ remaining = << >>
     /\ idx = 1
     /\ result = NoResult
     /\ earlier = << >>
     /\ NoPanel
     /\ NoWorkflow

\* The call calculateSemanticSimilarity(str1, str2) returns.
SemanticCall ==
  /\ ~probe.called
  /\ pc = "idle"
  /\ probe' = [ probe EXCEPT !.called = TRUE,
                             !.value = calculateSemanticSimilarity(probe.str1, probe.str2) ]
  /\ UNCHANGED << sourceColumns, targetColumns, sourceData, targetData, matches,
                  usedTargetColumns, pc, remaining, idx, result, earlier,
                  panelVars, workflowVars >>

NextSem ==
  \/ Next
  \/ SemanticCall

SpecSem == InitSem /\ [][NextSem]_vars

\* ------------------------------------------------------------------------
\* analyzeColumnAlignment called several times, one call after the other
\* ------------------------------------------------------------------------

\* Largest number of calls in a row.
MaxCalls == 3

\* The arguments of the calls that are repeated: an exact and a similar
\* match, a semantic match, pattern matches from row data, a repeated
\* source name, and no source column at all.
RepeatCalls ==
  { [ src |-> << nEmail, nEmaals >>, tgt |-> << nEMail, nEmaal >>,
      sdata |-> Absent, tdata |-> Absent ],
    [ src |-> << nCustEmail >>, tgt |-> << nContactMail >>,
      sdata |-> Absent, tdata |-> Absent ],
    [ src |-> << nP, nQ >>, tgt |-> << nX, nY >>,
      sdata |-> Data(<< MakeRow(<< nP, nQ >>, << v12, vab >>) >>),
      tdata |-> Data(<< MakeRow(<< nX, nY >>, << v12, vab >>) >>) ],
    [ src |-> << nEmail, nEmail >>, tgt |-> << nEmails, nEmaal >>,
      sdata |-> Absent, tdata |-> Absent ],
    [ src |-> << >>, tgt |-> << nEMail >>,
      sdata |-> Absent, tdata |-> Absent ] }

InitTwice ==
  \E c \in RepeatCalls :
    /\ sourceColumns = c.src
    /\ targetColumns = c.tgt
    /\ sourceData = c.sdata
    /\ targetData = c.tdata
    /\ matches = << >>
    /\ usedTargetColumns = {}
    /\ pc = "exact"
    /\ remaining = c.src
    /\ idx = 1
    /\ result = NoResult
    /\ probe = NoProbe
    /\ earlier = << >>
    /\ NoPanel
    /\ NoWorkflow

\* The record of the call that has just returned.
ReturnedCall ==
  [ src |-> sourceColumns, tgt |-> targetColumns,
    sdata |-> sourceData, tdata |-> targetData, result |-> result ]

\* A mutant of CallAgain: usedTargetColumns is a static field of the class
\* and keeps the columns of the calls before.
CallAgainWithStaticSet ==
  /\ pc = "done"
  /\ Len(earlier) + 1 < MaxCalls
  /\ earlier' = Append(earlier, ReturnedCall)
  /\ \E c \in RepeatCalls :
       /\ sourceColumns' = c.src
       /\ targetColumns' = c.tgt
       /\ sourceData' = c.sdata
       /\ targetData' = c.tdata
       /\ remaining' = c.src
  /\ matches' = << >>
  /\ pc' = "exact"
  /\ idx' = 1
  /\ UNCHANGED << usedTargetColumns, result, probe, panelVars, workflowVars >>

\* After a call has returned the method is called again: the arguments are
\* bound anew and matches and usedTargetColumns are created anew (lines
\* 28-29); nothing else of the call before is left.
CallAgain ==
  /\ pc = "done"
  /\ Len(earlier) + 1 < MaxCalls
  /\ earlier' = Append(earlier, ReturnedCall)
  /\ \E c \in RepeatCalls :
       /\ sourceColumns' = c.src
       /\ targetColumns' = c.tgt
       /\ sourceData' = c.sdata
       /\ targetData' = c.tdata
       /\ remaining' = c.src
  /\ matches' = << >>
  /\ usedTargetColumns' = {}
  /\ pc' = "exact"
  /\ idx' = 1
  /\ UNCHANGED << result, probe, panelVars, workflowVars >>

\* The steps of a call.  They leave alone what CallAgain records.
NextTwice ==
  \/ Next
  \/ CallAgain

SpecTwice == InitTwice /\ [][NextTwice]_vars


\* ------------------------------------------------------------------------
\* Properties of analyzeColumnAlignment
\* ------------------------------------------------------------------------

\* The target column names of a sequence of matches.
MatchedTargets(ms) == { ms[i].targetColumn : i \in 1..Len(ms) }

\* The number of matches whose source (target) column is the given name.
NumSourceMatches(ms, name) == Cardinality({ i \in 1..Len(ms) : ms[i].sourceColumn = name })
NumTargetMatches(ms, name) == Cardinality({ i \in 1..Len(ms) : ms[i].targetColumn = name })

HasRepeat(seq) == \E i, j \in 1..Len(seq) : i < j /\ seq[i] = seq[j]

\* C1: in every state of a run, and so in the returned result, no two
\* matches have the same targetColumn, also when names repeat in the inputs.
C1_TargetsDistinct ==
  /\ \A i, j \in 1..Len(matches) :
       i # j => matches[i].targetColumn # matches[j].targetColumn
  /\ pc = "done" => result.matches = matches

\* C1 witness: a call with a repeated source name and a repeated target name
\* has returned, and the repeated target name is the target of a match.
C1_Witness ==
  /\ pc = "done"
  /\ HasRepeat(sourceColumns)
  /\ \E i, j \in 1..Len(targetColumns) :
       /\ i < j
       /\ targetColumns[i] = targetColumns[j]
       /\ targetColumns[i] \in MatchedTargets(result.matches)

\* C2 as claimed: in the result every source column name is either the
\* sourceColumn of exactly one match and no element of unmatchedSource, or
\* the sourceColumn of no match and an element of unmatchedSource.
C2_SourcePartition ==
  pc = "done" =>
    \A k \in 1..Len(sourceColumns) :
      \/ /\ NumSourceMatches(result.matches, sourceColumns[k]) = 1
         /\ sourceColumns[k] \notin Range(result.unmatchedSource)
      \/ /\ NumSourceMatches(result.matches, sourceColumns[k]) = 0
         /\ sourceColumns[k] \in Range(result.unmatchedSource)

\* C3 as claimed: matches.length + unmatchedSource.length equals
\* sourceColumns.length for every input, with or without repeated names.
C3_SourceCount ==
  pc = "done" =>
    Len(result.matches) + Len(result.unmatchedSource) = Len(sourceColumns)

\* C4: unmatchedTarget is the sub-sequence of targetColumns, in input order,
\* of the names that are the targetColumn of no match; every target column
\* name is the target of exactly one match or is listed, never both.
C4_UnmatchedTarget ==
  pc = "done" =>
    /\ result.unmatchedTarget =
         SelectSeq(targetColumns, LAMBDA c : NumTargetMatches(result.matches, c) = 0)
    /\ \A k \in 1..Len(targetColumns) :
         \/ /\ NumTargetMatches(result.matches, targetColumns[k]) = 1
            /\ targetColumns[k] \notin Range(result.unmatchedTarget)
         \/ /\ NumTargetMatches(result.matches, targetColumns[k]) = 0
            /\ targetColumns[k] \in Range(result.unmatchedTarget)

\* C4 witness: a result in which the last target column is matched by a
\* phase after the exact one and the first target column is left unmatched.
C4_Witness ==
  /\ pc = "done"
  /\ Len(targetColumns) = 2
  /\ result.unmatchedTarget = << targetColumns[1] >>
  /\ \E i \in 1..Len(result.matches) :
       /\ result.matches[i].targetColumn = targetColumns[2]
       /\ result.matches[i].type # "exact"

\* The sum of the confidences, taken from the first match on.
RECURSIVE TotalConfidence(_)
TotalConfidence(ms) ==
  IF ms = << >> THEN Zero ELSE FracAdd(Head(ms).confidence, TotalConfidence(Tail(ms)))

\* C5: the returned confidence is 0 when there is no match and otherwise
\* it is the sum of the confidences of the matches divided by their number.
C5_MeanConfidence ==
  pc = "done" =>
    IF Len(result.matches) = 0
    THEN result.confidence = Zero
    ELSE result.confidence.n * TotalConfidence(result.matches).d * Len(result.matches)
           = TotalConfidence(result.matches).n * result.confidence.d

\* C5 witness: a result with two matches of different confidences.
C5_Witness ==
  /\ pc = "done"
  /\ Len(result.matches) = 2
  /\ result.matches[1].confidence # result.matches[2].confidence

\* The positions of the target columns that no match uses yet and whose
\* normalised name equals that of the source column.
ExactCandidates(sourceCol) ==
  { k \in 1..Len(targetColumns) :
      /\ targetColumns[k] \notin MatchedTargets(matches)
      /\ normalizeColumnName(targetColumns[k]) = normalizeColumnName(sourceCol) }

\* C6 as claimed: each iteration of the exact phase matches the source
\* column to the first target column, in input order, that no earlier match
\* uses and whose normalised name is equal, with type exact, confidence 1.0
\* and the single reason "Exact column name match", and matches nothing
\* when there is no such target column; the example call returns exactly
\* the two exact matches Customer_ID-customerid and Name-Name.
C6_ExactPhase ==
  [][ /\ (pc = "exact" /\ idx <= Len(remaining)) =>
           IF ExactCandidates(remaining[idx]) = {}
           THEN matches' = matches
           ELSE matches' =
                  Append(matches,
                         [ sourceColumn |-> remaining[idx],
                           targetColumn |->
                             targetColumns[FirstOf(ExactCandidates(remaining[idx]))],
                           confidence |-> One,
                           reasons |-> << Reason("Exact column name match", 0, "") >>,
                           type |-> "exact" ])
      /\ ( /\ pc' = "done"
           /\ sourceColumns = << nCustomerID, nName >>
           /\ targetColumns = << nCustomerid, nName >> ) =>
           /\ Len(result'.matches) = 2
           /\ \A i \in 1..2 :
                /\ result'.matches[i].sourceColumn = sourceColumns[i]
                /\ result'.matches[i].targetColumn = targetColumns[i]
                /\ result'.matches[i].type = "exact"
                /\ result'.matches[i].confidence = One
    ]_vars

\* C7 as claimed: whenever the exact phase processes a source column and
\* some target column that no match uses yet has the same normalised name
\* (the empty one included), the source column receives a match of type
\* exact with confidence 1.0.
C7_EqualNormalizedIsExact ==
  [][ ( /\ pc = "exact"
        /\ idx <= Len(remaining)
        /\ ExactCandidates(remaining[idx]) # {} ) =>
        /\ Len(matches') = Len(matches) + 1
        /\ matches'[Len(matches')].sourceColumn = remaining[idx]
        /\ matches'[Len(matches')].type = "exact"
        /\ matches'[Len(matches')].confidence = One
    ]_vars

\* C8 as claimed: every match of type similar pairs two columns whose
\* normalised names differ, and its confidence is at least 0.8 and less
\* than 1.0.
C8_SimilarIsNeverEqual ==
  \A i \in 1..Len(matches) :
    matches[i].type = "similar" =>
      /\ normalizeColumnName(matches[i].sourceColumn)
           # normalizeColumnName(matches[i].targetColumn)
      /\ FracGeq(matches[i].confidence, Frac(8, 10))
      /\ FracLt(matches[i].confidence, One)

\* ------------------------------------------------------------------------
\* Properties of calculateStringSimilarity and of the best-match selection
\* ------------------------------------------------------------------------

\* The Levenshtein distance by its defining recursion: the least number of
\* insertions, deletions and substitutions of one character, each of cost
\* 1, that turn a into b (a transposition counts as two edits).
RECURSIVE EditDistance(_, _)
EditDistance(a, b) ==
  IF a = << >> THEN Len(b)
  ELSE IF b = << >> THEN Len(a)
  ELSE IF Head(a) = Head(b) THEN EditDistance(Tail(a), Tail(b))
  ELSE 1 + Min3(EditDistance(Tail(a), b),
                EditDistance(a, Tail(b)),
                EditDistance(Tail(a), Tail(b)))

\* The claimed value for the normalised names na and nb.
ClaimedSimilarity(na, nb) ==
  IF Max2(Len(na), Len(nb)) = 0 THEN One
  ELSE Frac(Max2(Len(na), Len(nb)) - EditDistance(na, nb), Max2(Len(na), Len(nb)))

\* C9: calculateStringSimilarity(a, b) is 1 - L / max(|na|, |nb|) for the
\* normalised names na, nb and their Levenshtein distance L, and 1 when
\* both are empty; it lies in [0, 1] and is 1 exactly when na = nb.
C9_SimilarityFormula ==
  probe.called =>
    /\ probe.value = ClaimedSimilarity(normalizeColumnName(probe.str1),
                                       normalizeColumnName(probe.str2))
    /\ FracGeq(probe.value, Zero)
    /\ FracGeq(One, probe.value)
    /\ (probe.value = One) <=>
         (normalizeColumnName(probe.str1) = normalizeColumnName(probe.str2))

\* C9 witness: the similarity of two names that differ after normalisation
\* by a transposition of two characters has been computed and is 0.
C9_Witness ==
  /\ probe.called
  /\ normalizeColumnName(probe.str1) = << "a", "b" >>
  /\ normalizeColumnName(probe.str2) = << "b", "a" >>
  /\ probe.str1 # normalizeColumnName(probe.str1)
  /\ probe.value = Zero

\* The threshold of each phase, as claimed.
ClaimedThreshold(phase) ==
  CASE phase = "similar" -> Frac(8, 10)
    [] phase = "pattern" -> Frac(6, 10)
    [] phase = "semantic" -> Frac(7, 10)

\* The scores of the source column against the target columns k, k+1, ...
\* in targetColumns order.
RECURSIVE ScoresFrom(_, _, _)
ScoresFrom(phase, sourceCol, k) ==
  IF k > Len(targetColumns) THEN << >>
  ELSE << PhaseScore(phase, sourceCol, targetColumns[k], sourceData, targetData).score >>
       \o ScoresFrom(phase, sourceCol, k + 1)

\* The positions of the target columns that no match uses yet and that
\* score at least the threshold of the phase.
Eligible(phase, scores) ==
  { k \in 1..Len(targetColumns) :
      /\ targetColumns[k] \notin MatchedTargets(matches)
      /\ FracGeq(scores[k], ClaimedThreshold(phase)) }

\* The eligible position with the highest score, the earliest of them.
Chosen(scores, eligible) ==
  CHOOSE k \in eligible :
    \A l \in eligible :
      FracGt(scores[k], scores[l]) \/ (scores[k] = scores[l] /\ k <= l)

\* What one iteration of a phase must do to the matches, given the position
\* of the target column that is to be chosen (0: none is eligible).
AppendsMatch(phase, sourceCol, scores, k) ==
  IF k = 0
  THEN matches' = matches
  ELSE /\ Len(matches') = Len(matches) + 1
       /\ SubSeq(matches', 1, Len(matches)) = matches
       /\ matches'[Len(matches')].sourceColumn = sourceCol
       /\ matches'[Len(matches')].targetColumn = targetColumns[k]
       /\ matches'[Len(matches')].confidence = scores[k]
       /\ matches'[Len(matches')].type = phase

ChosenOrNone(scores, eligible) ==
  IF eligible = {} THEN 0 ELSE Chosen(scores, eligible)

SelectsBest(phase, sourceCol, scores) ==
  AppendsMatch(phase, sourceCol, scores,
               ChosenOrNone(scores, Eligible(phase, scores)))

\* C10: in the similar, pattern and semantic phases each processed source
\* column gets, among the target columns that no earlier match uses and
\* that score at least the threshold of the phase (0.8, 0.6, 0.7, each
\* inclusive), the one with the highest score, the earliest in
\* targetColumns order among those tied on it, and gets no match in the
\* phase when no target column is eligible.
C10_BestEligibleFirstOnTie ==
  [][ \A phase \in { "similar", "pattern", "semantic" } :
        (pc = phase /\ idx <= Len(remaining)) =>
          SelectsBest(phase, remaining[idx], ScoresFrom(phase, remaining[idx], 1))
    ]_vars

\* C10 witness: the similar phase has matched a source column to the first
\* target column although the second target column, unused as well, has
\* the same score.
C10_Witness ==
  /\ pc = "similar"
  /\ Len(targetColumns) = 2
  /\ Len(matches) = 1
  /\ matches[1].type = "similar"
  /\ matches[1].targetColumn = targetColumns[1]
  /\ targetColumns[2] # targetColumns[1]
  /\ calculateStringSimilarity(matches[1].sourceColumn, targetColumns[2])
       = matches[1].confidence

\* ------------------------------------------------------------------------
\* The examples of the similar and of the semantic phase
\* ------------------------------------------------------------------------

\* The call analyzeColumnAlignment(["Emial"], ["Email"]) has returned.
EmialCallDone ==
  /\ pc = "done"
  /\ sourceColumns = << nEmial >>
  /\ targetColumns = << nEmail >>
  /\ ~sourceData.present
  /\ ~targetData.present

\* C11 as claimed: analyzeColumnAlignment(["Emial"], ["Email"]) without
\* row data returns exactly one match, of type similar, with a confidence
\* of at least 0.8.
C11_EmialIsSimilar ==
  EmialCallDone =>
    /\ Len(result.matches) = 1
    /\ result.matches[1].type = "similar"
    /\ FracGeq(result.matches[1].confidence, Frac(8, 10))

\* C11 amended: analyzeColumnAlignment(["Emial"], ["Email"]) without row
\* data returns no match: the similarity of the two names is 0.6, below the
\* threshold 0.8, so "Emial" is reported in unmatchedSource, "Email" in
\* unmatchedTarget, and the confidence is 0.
C11_EmialIsUnmatched ==
  EmialCallDone =>
    /\ calculateStringSimilarity(nEmial, nEmail) = Frac(6, 10)
    /\ result.matches = << >>
    /\ result.unmatchedSource = << nEmial >>
    /\ result.unmatchedTarget = << nEmail >>
    /\ result.confidence = Zero

\* C11 witness: the call of the example has returned.
C11_Witness == EmialCallDone /\ result.unmatchedSource = sourceColumns

\* The groups in the claimed order.
ClaimedGroupOrder ==
  << "id", "name", "date", "email", "phone", "address", "amount", "count", "status" >>

\* The keywords of the group with the given name.
KeywordsOf(group) ==
  Range(semanticGroups[CHOOSE k \in 1..Len(semanticGroups) :
                         semanticGroups[k].group = group].keywords)

\* The string sub occurs in the string str.
Contains(str, sub) ==
  \E i \in 1..(Len(str) + 1), j \in 0..Len(str) : SubSeq(str, i, j) = sub

\* The positions in the claimed order of the groups of which the one name
\* contains a keyword and the other name contains a keyword too.
QualifyingGroups(sourceNorm, targetNorm) ==
  { k \in 1..Len(ClaimedGroupOrder) :
      \E kw1, kw2 \in KeywordsOf(ClaimedGroupOrder[k]) :
        Contains(sourceNorm, kw1) /\ Contains(targetNorm, kw2) }

\* The claimed value of calculateSemanticSimilarity from the qualifying groups.
ClaimedSemanticOf(groups) ==
  IF groups = {}
  THEN [ score |-> Zero, reasons |-> << >> ]
  ELSE [ score |-> Frac(8, 10),
         reasons |-> << Reason("Both columns relate to", 0,
                                ClaimedGroupOrder[FirstOf(groups)]) >> ]

ClaimedSemantic(s, t) ==
  ClaimedSemanticOf(QualifyingGroups(normalizeColumnName(s), normalizeColumnName(t)))

\* The call analyzeColumnAlignment(["cust_email"], ["contact_mail"]) without
\* row data has returned.
CustEmailCallDone ==
  /\ pc = "done"
  /\ sourceColumns = << nCustEmail >>
  /\ targetColumns = << nContactMail >>
  /\ ~sourceData.present
  /\ ~targetData.present

\* C12: calculateSemanticSimilarity(s, t) returns the score 0.8 and the one
\* reason "Both columns relate to <g>" for the first group g, in the order
\* id, name, date, email, phone, address, amount, count, status, of which
\* both normalised names contain a keyword, and the score 0 and no reason
\* when there is no such group; every match of type semantic has confidence
\* 0.8, and the call with "cust_email" and "contact_mail" returns the one
\* semantic match of the group email.
C12_SemanticFirstGroup ==
  /\ probe.called => probe.value = ClaimedSemantic(probe.str1, probe.str2)
  /\ \A i \in 1..Len(matches) :
       matches[i].type = "semantic" =>
         /\ matches[i].confidence = Frac(8, 10)
         /\ matches[i].reasons
              = ClaimedSemantic(matches[i].sourceColumn, matches[i].targetColumn).reasons
         /\ Len(matches[i].reasons) = 1
  /\ CustEmailCallDone =>
       result.matches =
         << [ sourceColumn |-> nCustEmail,
              targetColumn |-> nContactMail,
              confidence |-> Frac(8, 10),
              reasons |-> << Reason("Both columns relate to", 0, "email") >>,
              type |-> "semantic" ] >>

\* C12 witness: calculateSemanticSimilarity has returned the group address
\* for a source name that also holds a keyword of the earlier group email
\* and a target name that also holds a keyword of the later group status.
C12_Witness ==
  /\ probe.called
  /\ normalizeColumnName(probe.str1) = << "a", "d", "d", "r", "e", "s", "s" >>
  /\ normalizeColumnName(probe.str2) = << "s", "t", "a", "t", "e" >>
  /\ probe.value.score = Frac(8, 10)
  /\ probe.value.reasons = << Reason("Both columns relate to", 0, "address") >>

\* ------------------------------------------------------------------------
\* Properties of the pattern phase
\* ------------------------------------------------------------------------

\* One of the two data sets was not passed.
DataMissing == ~sourceData.present \/ ~targetData.present

\* The first 100 rows of the data set hold no value for the column, or
\* only null and undefined ones.
NoSampledValues(data, col) ==
  \A i \in 1..Len(data.rows) :
    i <= 100 => Cell(data.rows[i], col).t \in { "null", "undefined" }

\* The pair of columns has nothing to compare.
NothingToCompare(sourceCol, targetCol) ==
  \/ DataMissing
  \/ NoSampledValues(sourceData, sourceCol)
  \/ NoSampledValues(targetData, targetCol)

\* C13: when sourceData or targetData is absent, or a column has no sampled
\* value, calculatePatternSimilarity returns the score 0 and no reasons for
\* the pair; an iteration of the pattern phase whose pairs all have nothing
\* to compare changes neither the matches nor the used target columns;
\* with a data set absent the semantic phase starts from the very state and
\* source columns the pattern phase started from, as if the pattern phase
\* had not run, and the result holds no match of type pattern.
C13_PatternPhaseNoOp ==
  [][ /\ (pc = "pattern" /\ idx <= Len(remaining)) =>
           /\ \A k \in 1..Len(targetColumns) :
                NothingToCompare(remaining[idx], targetColumns[k]) =>
                  calculatePatternSimilarity(remaining[idx], targetColumns[k],
                                             sourceData, targetData)
                    = [ score |-> Zero, reasons |-> << >> ]
           /\ (\A k \in 1..Len(targetColumns) :
                 NothingToCompare(remaining[idx], targetColumns[k])) =>
                /\ matches' = matches
                /\ usedTargetColumns' = usedTargetColumns
      /\ (pc = "pattern" /\ pc' = "semantic" /\ DataMissing) =>
           /\ remaining' = remaining
           /\ remaining' = FilterUnmatchedSource(sourceColumns, matches)
           /\ \A i \in 1..Len(matches) : matches[i].type \in { "exact", "similar" }
      /\ (pc' = "done" /\ DataMissing) =>
           \A i \in 1..Len(result'.matches) : result'.matches[i].type # "pattern"
    ]_vars

\* C13 witness: a call with source rows and without target data has
\* returned; the pattern phase has visited both source columns, one of
\* which holds values, and no column is matched.
C13_Witness ==
  /\ pc = "done"
  /\ sourceData.present
  /\ ~targetData.present
  /\ Len(sourceColumns) = 2
  /\ ~NoSampledValues(sourceData, sourceColumns[1])
  /\ Len(sourceData.rows) > 0
  /\ Len(targetColumns) = 2
  /\ result.matches = << >>
  /\ result.unmatchedSource = sourceColumns

\* ------------------------------------------------------------------------
\* The result as a function of the arguments
\* ------------------------------------------------------------------------

\* The matches and the used target columns at some point of a run.
RunState(ms, used) == [ ms |-> ms, used |-> used ]

\* The exact phase on the source columns i, i+1, ... from the state st.
ExactIteration(sourceCol, tgt, st, k) ==
  IF ExactMatchTaken(tgt, k)
  THEN RunState(Append(st.ms, ExactMatchRecord(sourceCol, tgt[k])),
                st.used \cup { tgt[k] })
  ELSE st

RECURSIVE ExactLoop(_, _, _, _)
ExactLoop(cols, i, tgt, st) ==
  IF i > Len(cols) THEN st
  ELSE ExactLoop(cols, i + 1, tgt,
                 ExactIteration(cols[i], tgt, st, FindExact(cols[i], tgt, st.used)))

\* A later phase on the columns i, i+1, ... of cols from the state st.
BestIteration(phase, sourceCol, st, best) ==
  IF best.found
  THEN RunState(Append(st.ms, BestMatchRecord(phase, sourceCol, best)),
                st.used \cup { best.column })
  ELSE st

RECURSIVE BestLoop(_, _, _, _, _, _, _)
BestLoop(phase, cols, i, tgt, sd, td, st) ==
  IF i > Len(cols) THEN st
  ELSE BestLoop(phase, cols, i + 1, tgt, sd, td,
                BestIteration(phase, cols[i], st,
                              BestMatch(phase, cols[i], tgt, st.used, sd, td)))

PhaseOf(phase, src, tgt, sd, td, st) ==
  BestLoop(phase, FilterUnmatchedSource(src, st.ms), 1, tgt, sd, td, st)

FinalOf(src, tgt, st) == Suggestion(src, tgt, st.ms, st.used)

\* The result of the four phases run one after the other on the arguments.
Analyze(src, tgt, sd, td) ==
  FinalOf(src, tgt,
    PhaseOf("semantic", src, tgt, sd, td,
      PhaseOf("pattern", src, tgt, sd, td,
        PhaseOf("similar", src, tgt, sd, td,
          ExactLoop(src, 1, tgt, RunState(<< >>, {}))))))

\* The data set cut after its first 100 rows.
First100(data) ==
  IF data.present /\ Len(data.rows) > 100
  THEN Data(SubSeq(data.rows, 1, 100))
  ELSE data

\* C14: the returned AlignmentSuggestion is the one of the call with the
\* same column lists and each data set cut after its first 100 rows; so two
\* calls whose data sets agree on their first 100 rows return the same
\* result, whatever the later rows hold.
C14_First100RowsOnly ==
  pc = "done" =>
    result = Analyze(sourceColumns, targetColumns,
                     First100(sourceData), First100(targetData))

\* C14 witness: a call whose source data has more than 100 rows has
\* returned a pattern match of confidence 1.0 for a source column whose
\* values after row 100 differ from its values in the first 100 rows.
C14_Witness ==
  /\ pc = "done"
  /\ sourceData.present
  /\ Len(sourceData.rows) > 100
  /\ \E i \in 1..Len(result.matches) :
       /\ result.matches[i].type = "pattern"
       /\ result.matches[i].confidence = One
       /\ sourceData.rows[101][result.matches[i].sourceColumn]
            # sourceData.rows[100][result.matches[i].sourceColumn]

\* The first 100 rows of the data set hold, for the column, only null,
\* undefined and empty-string values (or no value at all).
OnlyBlankValues(data, col) ==
  \A i \in 1..Len(data.rows) :
    i <= 100 =>
      \/ Cell(data.rows[i], col).t \in { "null", "undefined" }
      \/ Cell(data.rows[i], col) = Str(<< >>)

\* C15 as claimed: null, undefined and empty values are dropped from a
\* sample, so a column whose values in the first 100 rows are all null,
\* undefined or empty has an empty sample, scores 0 against every column
\* in the pattern phase and is in no match of type pattern.
C15_BlankColumnScoresZero ==
  (sourceData.present /\ targetData.present) =>
    /\ \A i \in 1..Len(sourceColumns), k \in 1..Len(targetColumns) :
         ( /\ pc = "pattern"
           /\ \/ OnlyBlankValues(sourceData, sourceColumns[i])
              \/ OnlyBlankValues(targetData, targetColumns[k]) ) =>
             calculatePatternSimilarity(sourceColumns[i], targetColumns[k],
                                        sourceData, targetData).score = Zero
    /\ \A m \in 1..Len(matches) :
         matches[m].type = "pattern" =>
           /\ ~OnlyBlankValues(sourceData, matches[m].sourceColumn)
           /\ ~OnlyBlankValues(targetData, matches[m].targetColumn)

\* The type keys of a sample, the pattern tags of its first 20 values and
\* its distinct lower-cased stringified values.
TypeKeys(sample) == { TypeOfValue(sample[i]) : i \in 1..Len(sample) }

TagsOfFirst20(sample) ==
  UNION { IF i <= 20 THEN PatternsOfValue(sample[i]) ELSE {} : i \in 1..Len(sample) }

LoweredValues(sample) == { toLowerCase(String(sample[i])) : i \in 1..Len(sample) }

\* weight/10 * overlap/total, and 0 when the overlap is empty.
ClaimedTerm(weight, overlap, total) ==
  IF overlap = 0 THEN Zero ELSE Frac(weight * overlap, 10 * total)

\* The reason texts of the terms whose overlap is not empty, in order.
ClaimedReasonTexts(typeOverlap, tagOverlap, valueOverlap) ==
  (IF typeOverlap > 0 THEN << "Similar data types" >> ELSE << >>)
  \o (IF tagOverlap > 0 THEN << "Similar value patterns" >> ELSE << >>)
  \o (IF valueOverlap > 0 THEN << "Common values" >> ELSE << >>)

\* The claimed sum of the three terms, capped at 1.
ClaimedPatternScore(sTypes, tTypes, sTags, tTags, sValues, tValues) ==
  FracMin(One,
    FracAdd(ClaimedTerm(4, Cardinality(sTypes \cap tTypes),
                        Cardinality(sTypes \cup tTypes)),
      FracAdd(ClaimedTerm(3, Cardinality(sTags \cap tTags),
                          Max2(Cardinality(sTags), Cardinality(tTags))),
              ClaimedTerm(3, Cardinality(sValues \cap tValues),
                          Max2(Cardinality(sValues), Cardinality(tValues))))))

\* The claim for the returned value ps and the two non-empty samples.
PatternScoreAsClaimed(ps, sSample, tSample) ==
  /\ ps.score = ClaimedPatternScore(TypeKeys(sSample), TypeKeys(tSample),
                                    TagsOfFirst20(sSample), TagsOfFirst20(tSample),
                                    LoweredValues(sSample), LoweredValues(tSample))
  /\ [ r \in 1..Len(ps.reasons) |-> ps.reasons[r].text ]
       = ClaimedReasonTexts(
           Cardinality(TypeKeys(sSample) \cap TypeKeys(tSample)),
           Cardinality(TagsOfFirst20(sSample) \cap TagsOfFirst20(tSample)),
           Cardinality(LoweredValues(sSample) \cap LoweredValues(tSample)))
  /\ FracGeq(ps.score, Zero)
  /\ FracGeq(One, ps.score)

\* C16: for two non-empty samples calculatePatternSimilarity returns
\* min(1, 0.4 * shared type keys / all type keys
\*        + 0.3 * shared pattern tags / larger number of tags (tags of the
\*          first 20 sampled values of each side)
\*        + 0.3 * shared lower-cased values / larger number of values),
\* a term with an empty overlap adding nothing and no reason, and the score
\* lies in [0, 1].
C16_PatternScoreFormula ==
  (pc = "pattern" /\ sourceData.present /\ targetData.present) =>
    \A i \in 1..Len(sourceColumns), k \in 1..Len(targetColumns) :
      ( /\ Sample(sourceData.rows, sourceColumns[i]) # << >>
        /\ Sample(targetData.rows, targetColumns[k]) # << >> ) =>
        PatternScoreAsClaimed(
          calculatePatternSimilarity(sourceColumns[i], targetColumns[k],
                                     sourceData, targetData),
          Sample(sourceData.rows, sourceColumns[i]),
          Sample(targetData.rows, targetColumns[k]))

\* C16 witness: the pattern phase has matched, with the score 0.65 = 0.2 +
\* 0.3 + 0.15, a source column of 21 sampled values whose 21st value has a
\* tag that none of the first 20 values has.
C16_Witness ==
  /\ pc = "semantic"
  /\ sourceData.present
  /\ Len(sourceData.rows) = 21
  /\ Len(matches) > 0
  /\ matches[1].type = "pattern"
  /\ matches[1].confidence = Frac(65, 100)
  /\ ~(PatternsOfValue(sourceData.rows[21][matches[1].sourceColumn])
         \subseteq TagsOfFirst20(Sample(sourceData.rows, matches[1].sourceColumn)))

\* ------------------------------------------------------------------------
\* Properties of the matches as a whole
\* ------------------------------------------------------------------------

\* The place of a match type in the order of the phases.
PhaseRank(type) ==
  CASE type = "exact" -> 1
    [] type = "similar" -> 2
    [] type = "pattern" -> 3
    [] type = "semantic" -> 4

\* The source columns of the matches of one type, in the order of the matches.
RECURSIVE SourcesOfType(_, _)
SourcesOfType(ms, type) ==
  IF ms = << >> THEN << >>
  ELSE (IF Head(ms).type = type THEN << Head(ms).sourceColumn >> ELSE << >>)
       \o SourcesOfType(Tail(ms), type)

\* sub can be obtained from seq by deleting elements.
RECURSIVE IsSubsequence(_, _)
IsSubsequence(sub, seq) ==
  IF sub = << >> THEN TRUE
  ELSE IF seq = << >> THEN FALSE
  ELSE IF Head(sub) = Head(seq) THEN IsSubsequence(Tail(sub), Tail(seq))
  ELSE IsSubsequence(sub, Tail(seq))

\* The order of a sequence of matches is the claimed one.
OrderedByPhaseThenSource(ms) ==
  /\ \A i, j \in 1..Len(ms) :
       i < j => PhaseRank(ms[i].type) <= PhaseRank(ms[j].type)
  /\ \A type \in { "exact", "similar", "pattern", "semantic" } :
       IsSubsequence(SourcesOfType(ms, type), sourceColumns)

\* C17: in the matches, during the run and in the result, all exact matches
\* precede all similar ones, which precede all pattern ones, which precede
\* all semantic ones, and the matches of one type appear in the order of
\* their source columns in sourceColumns.
C17_MatchesOrdered ==
  /\ OrderedByPhaseThenSource(matches)
  /\ pc = "done" => OrderedByPhaseThenSource(result.matches)

\* C17 witness: the result lists the exact match of the second source
\* column before the match that a later phase gave the first source column.
C17_Witness ==
  /\ pc = "done"
  /\ Len(sourceColumns) = 2
  /\ sourceColumns[1] # sourceColumns[2]
  /\ Len(result.matches) = 2
  /\ result.matches[1].type = "exact"
  /\ result.matches[1].sourceColumn = sourceColumns[2]
  /\ result.matches[2].type # "exact"
  /\ result.matches[2].sourceColumn = sourceColumns[1]

\* No column name is in matches of two types.
OneTypePerColumn(ms) ==
  \A i, j \in 1..Len(ms) :
    ( \/ ms[i].sourceColumn = ms[j].sourceColumn
      \/ ms[i].targetColumn = ms[j].targetColumn ) => ms[i].type = ms[j].type

\* C18: no source column name and no target column name appears in matches
\* of two different types, during the run and in the result; the source
\* column a later phase is about to process is the source of no match of an
\* earlier phase, and no unused target column it considers is the target
\* of a match.
C18_OnePhasePerColumn ==
  /\ OneTypePerColumn(matches)
  /\ pc = "done" => OneTypePerColumn(result.matches)
  /\ (pc \in { "similar", "pattern", "semantic" } /\ idx <= Len(remaining)) =>
       /\ \A m \in 1..Len(matches) :
            matches[m].sourceColumn = remaining[idx] => matches[m].type = pc
       /\ \A k \in 1..Len(targetColumns) :
            targetColumns[k] \notin usedTargetColumns =>
              \A m \in 1..Len(matches) : matches[m].targetColumn # targetColumns[k]

\* C18 witness: a source column has an exact match although a target column
\* that is still unmatched in the result is similar enough to it for the
\* similar phase, which did not reconsider the source column.
C18_Witness ==
  /\ pc = "done"
  /\ \E m \in 1..Len(result.matches) :
       /\ result.matches[m].type = "exact"
       /\ NumSourceMatches(result.matches, result.matches[m].sourceColumn) = 1
       /\ \E k \in 1..Len(result.unmatchedTarget) :
            FracGeq(calculateStringSimilarity(result.matches[m].sourceColumn,
                                              result.unmatchedTarget[k]),
                    Frac(8, 10))

\* ------------------------------------------------------------------------
\* Properties of calls in a row and of calls with an empty column list
\* ------------------------------------------------------------------------

\* The earlier call h had the arguments of the present call.
SameArguments(h) ==
  /\ h.src = sourceColumns
  /\ h.tgt = targetColumns
  /\ h.sdata = sourceData
  /\ h.tdata = targetData

\* C19: a call returns what every earlier call with the same arguments has
\* returned (the same matches in the same order, the same unmatched lists,
\* the same confidence), whatever calls were made before or between them.
C19_SameArgumentsSameResult ==
  pc = "done" =>
    \A h \in 1..Len(earlier) :
      SameArguments(earlier[h]) => earlier[h].result = result

\* C19 witness: the third call has returned matches for the arguments of
\* the first call, after a second call with other target columns that
\* returned matches too.
C19_Witness ==
  /\ pc = "done"
  /\ Len(earlier) = 2
  /\ SameArguments(earlier[1])
  /\ earlier[2].tgt # targetColumns
  /\ earlier[2].result.matches # << >>
  /\ result.matches # << >>

\* One of the two column lists is empty.
EmptyInput == sourceColumns = << >> \/ targetColumns = << >>

\* C20: a call whose sourceColumns or targetColumns is empty, with or
\* without row data, makes no match in any phase and returns matches = [],
\* confidence = 0, unmatchedSource = sourceColumns and unmatchedTarget =
\* targetColumns.
C20_EmptyInputEmptyResult ==
  EmptyInput =>
    /\ matches = << >>
    /\ usedTargetColumns = {}
    /\ pc = "done" =>
         result = [ matches |-> << >>,
                    unmatchedSource |-> sourceColumns,
                    unmatchedTarget |-> targetColumns,
                    confidence |-> Zero ]

\* C20 witness: a call with two source columns, no target column and row
\* data for both files has returned.
C20_Witness ==
  /\ pc = "done"
  /\ Len(sourceColumns) = 2
  /\ targetColumns = << >>
  /\ sourceData.present /\ Len(sourceData.rows) > 0
  /\ targetData.present /\ Len(targetData.rows) > 0
  /\ result.unmatchedSource = sourceColumns

\* ------------------------------------------------------------------------
\* Properties of the returned matches
\* ------------------------------------------------------------------------

\* A match is well formed for the present arguments.
WellFormed(m) ==
  /\ FracGeq(m.confidence, Zero)
  /\ FracGeq(One, m.confidence)
  /\ Len(m.reasons) >= 1
  /\ m.sourceColumn \in Range(sourceColumns)
  /\ m.targetColumn \in Range(targetColumns)

\* C21: every match, when it is pushed and in the result, has a confidence
\* in [0, 1], at least one reason, a sourceColumn that is an element of
\* sourceColumns and a targetColumn that is an element of targetColumns.
C21_MatchesWellFormed ==
  /\ \A i \in 1..Len(matches) : WellFormed(matches[i])
  /\ pc = "done" => \A i \in 1..Len(result.matches) : WellFormed(result.matches[i])

\* C21 witness: a result with a similar match and with a pattern match of
\* a confidence below 1.
C21_Witness ==
  /\ pc = "done"
  /\ \E i, j \in 1..Len(result.matches) :
       /\ result.matches[i].type = "similar"
       /\ result.matches[j].type = "pattern"
       /\ FracLt(result.matches[j].confidence, One)

\* C22 as claimed: in the matches the confidence of a match of an earlier
\* phase (exact, similar, pattern, semantic, in this order) is at least the
\* confidence of every match of a later phase.
C22_EarlierPhaseOutranks ==
  \A i, j \in 1..Len(matches) :
    PhaseRank(matches[i].type) < PhaseRank(matches[j].type) =>
      FracGeq(matches[i].confidence, matches[j].confidence)

\* C22 amended: the confidence of an exact match is at least the
\* confidence of every other match, and the confidence of a similar match
\* is at least the confidence of every semantic match; a pattern match may
\* outrank a similar match and be outranked by a semantic one.
C22_ExactAndSimilarOutrank ==
  \A i, j \in 1..Len(matches) :
    ( \/ matches[i].type = "exact"
      \/ matches[i].type = "similar" /\ matches[j].type = "semantic" ) =>
      FracGeq(matches[i].confidence, matches[j].confidence)

\* C22 witness: a result with a similar match of a confidence above 0.8
\* and a semantic match.
C22_Witness ==
  /\ pc = "done"
  /\ \E i, j \in 1..Len(result.matches) :
       /\ result.matches[i].type = "similar"
       /\ FracGt(result.matches[i].confidence, Frac(8, 10))
       /\ result.matches[j].type = "semantic"

\* ------------------------------------------------------------------------
\* The order of the semantic groups
\* ------------------------------------------------------------------------

\* Orders of the nine groups: every rotation of the table and of the
\* reversed table, so that every group is the first one of some order and
\* the last one of another.
GroupOrders ==
  { [ i \in 1..9 |-> ((i + r - 1) % 9) + 1 ] : r \in 0..8 }
  \cup { [ i \in 1..9 |-> 9 - ((i + r - 1) % 9) ] : r \in 0..8 }

\* The table with its groups in the given order.
Reordered(order) == [ i \in 1..9 |-> semanticGroups[order[i]] ]

\* The result of calculateSemanticSimilarity with the table reordered.
SemanticReordered(order, s, t) ==
  SemanticOver(Reordered(order), 1, normalizeColumnName(s), normalizeColumnName(t))

\* The scores of a source column against all target columns with the
\* table reordered.
ReorderedScores(order, sourceCol) ==
  [ k \in 1..Len(targetColumns) |->
      SemanticReordered(order, sourceCol, targetColumns[k]).score ]

\* C23: with the groups of the table in another order, each call of
\* calculateSemanticSimilarity returns the same score, and each iteration
\* of the semantic phase pushes the same match (source column, target
\* column, type, confidence) or none, so the matched pairs, types,
\* confidences and unmatched lists of a result do not depend on the order.
C23_GroupOrderIrrelevant ==
  [][ \A order \in GroupOrders :
        /\ (~probe.called /\ probe'.called) =>
             SemanticReordered(order, probe.str1, probe.str2).score
               = probe'.value.score
        /\ (pc = "semantic" /\ idx <= Len(remaining)) =>
             SelectsBest("semantic", remaining[idx],
                         ReorderedScores(order, remaining[idx]))
    ]_vars

\* C23 witness: calculateSemanticSimilarity has returned a group for two
\* names that get the label of another group when the table is reordered.
C23_Witness ==
  /\ probe.called
  /\ probe.value.score = Frac(8, 10)
  /\ \E order \in GroupOrders :
       SemanticReordered(order, probe.str1, probe.str2).reasons # probe.value.reasons

\* ------------------------------------------------------------------------
\* Maximality of the matching and the evidence of a pattern match
\* ------------------------------------------------------------------------

\* The pair of columns meets the criterion of one of the four phases.
MeetsSomeCriterion(s, t) ==
  \/ normalizeColumnName(s) = normalizeColumnName(t)
  \/ FracGeq(calculateStringSimilarity(s, t), Frac(8, 10))
  \/ FracGeq(calculatePatternSimilarity(s, t, sourceData, targetData).score,
             Frac(6, 10))
  \/ QualifyingGroups(normalizeColumnName(s), normalizeColumnName(t)) # {}

\* C25: in the result of a call whose column lists hold no name twice, no
\* column of unmatchedSource and column of unmatchedTarget have equal
\* normalised names, a string similarity of at least 0.8, a pattern score
\* of at least 0.6, or a common semantic group.
C25_MatchingIsMaximal ==
  (pc = "done" /\ ~HasRepeat(sourceColumns) /\ ~HasRepeat(targetColumns)) =>
    \A i \in 1..Len(result.unmatchedSource), k \in 1..Len(result.unmatchedTarget) :
      ~MeetsSomeCriterion(result.unmatchedSource[i], result.unmatchedTarget[k])

\* C25 witness: a result with a match, an unmatched source column and an
\* unmatched target column, from row data and names without repeats.
C25_Witness ==
  /\ pc = "done"
  /\ ~HasRepeat(sourceColumns)
  /\ ~HasRepeat(targetColumns)
  /\ sourceData.present /\ Len(sourceData.rows) > 0
  /\ targetData.present /\ Len(targetData.rows) > 0
  /\ Len(result.matches) = 1
  /\ Len(result.unmatchedSource) = 1
  /\ Len(result.unmatchedTarget) = 1

\* C26: every match of type pattern has a confidence in [0.6, 1.0] and at
\* least two reasons: the type overlap, which adds at most 0.4, never makes
\* a pattern match on its own.
C26_PatternNeedsTwoComponents ==
  \A i \in 1..Len(matches) :
    matches[i].type = "pattern" =>
      /\ FracGeq(matches[i].confidence, Frac(6, 10))
      /\ FracGeq(One, matches[i].confidence)
      /\ Len(matches[i].reasons) >= 2

\* C26 witness: a pattern match of confidence 0.6 with exactly two
\* reasons, the type overlap and the value-pattern overlap.
C26_Witness ==
  \E i \in 1..Len(matches) :
    /\ matches[i].type = "pattern"
    /\ matches[i].confidence = Frac(6, 10)
    /\ Len(matches[i].reasons) = 2
    /\ matches[i].reasons[1].text = "Similar data types"
    /\ matches[i].reasons[2].text = "Similar value patterns"

\* ------------------------------------------------------------------------
\* The component SmartAlignmentPanel (src/components/smart-alignment-panel.tsx)
\* ------------------------------------------------------------------------
\* The props sourceFile and targetFile are held in sourceColumns,
\* targetColumns, sourceData and targetData; pc tells whether both files
\* have columns ("panel") or one of them has none ("panelNoColumns").

\* Largest number of calls of analyzeSuggestions that wait for their timer.
MaxInFlight == 2

nAddress == << "A", "d", "d", "r", "e", "s", "s" >>

\* The pairs of files the panel is shown for: two files without data, the
\* same columns with data, and a source file whose columns are undefined.
PanelFiles ==
  { [ src |-> << nName, nCustEmail >>, tgt |-> << nName, nAddress >>,
      sdata |-> Absent, tdata |-> Absent, columns |-> TRUE ],
    [ src |-> << nName, nCustEmail >>, tgt |-> << nName, nAddress >>,
      sdata |-> Data(<< MakeRow(<< nName, nCustEmail >>, << vab, v12 >>) >>),
      tdata |-> Data(<< MakeRow(<< nName, nAddress >>, << vab, v7 >>) >>),
      columns |-> TRUE ],
    [ src |-> << >>, tgt |-> << nName >>,
      sdata |-> Absent, tdata |-> Absent, columns |-> FALSE ] }

Pair(a, b) == [ file1 |-> a, file2 |-> b ]

\* The prop initialMatches: lists in which no column is paired twice.
InitialMatches ==
  { << >>,
    << Pair(nName, nAddress) >>,
    << Pair(nCustEmail, nName) >>,
    << Pair(nCustEmail, nAddress) >>,
    << Pair(nName, nName), Pair(nCustEmail, nAddress) >> }

\* The panel is mounted: the first render and its effect, which calls
\* analyzeSuggestions (lines 30-37).
InitPanel ==
  \E f \in PanelFiles, im \in InitialMatches :
    /\ sourceColumns = f.src
    /\ targetColumns = f.tgt
    /\ sourceData = f.sdata
    /\ targetData = f.tdata
    /\ pc = (IF f.columns THEN "panel" ELSE "panelNoColumns")
    /\ userMatches = im
    /\ autoAcceptHighConfidence = TRUE
    /\ isAnalyzing = f.columns
    /\ suggestion = NoSuggestion
    /\ analyses = (IF f.columns
                   THEN << [ auto |-> TRUE, src |-> f.src, tgt |-> f.tgt,
                             sdata |-> f.sdata, tdata |-> f.tdata ] >>
                   ELSE << >>)
    /\ matches = << >>
    /\ usedTargetColumns = {}
    /\ remaining = << >>
    /\ idx = 1
    /\ result = NoResult
    /\ probe = NoProbe
    /\ earlier = << >>
    /\ NoWorkflow

engineVars == << matches, usedTargetColumns, remaining, idx, result, probe, earlier >>
propVars == << sourceColumns, targetColumns, sourceData, targetData, pc >>

\* The button Re-analyze, which is disabled while isAnalyzing (line 158).
Reanalyze ==
  /\ pc \in { "panel", "panelNoColumns" }
  /\ ~isAnalyzing
  /\ Len(analyses) < MaxInFlight
  /\ analyses' = (IF pc = "panel"
                  THEN Append(analyses,
                         [ auto |-> autoAcceptHighConfidence, src |-> sourceColumns,
                           tgt |-> targetColumns, sdata |-> sourceData,
                           tdata |-> targetData ])
                  ELSE analyses)
  /\ isAnalyzing' = (pc = "panel")
  /\ UNCHANGED << userMatches, autoAcceptHighConfidence, suggestion, propVars,
                  engineVars, workflowVars >>

\* Another pair of files is selected: the effect of lines 35-37 calls
\* analyzeSuggestions of the new render, whatever isAnalyzing is.
PropsChange ==
  /\ pc \in { "panel", "panelNoColumns" }
  /\ Len(analyses) < MaxInFlight
  /\ \E f \in PanelFiles :
       /\ << f.src, f.tgt, f.sdata, f.tdata >> #
            << sourceColumns, targetColumns, sourceData, targetData >>
       /\ sourceColumns' = f.src
       /\ targetColumns' = f.tgt
       /\ sourceData' = f.sdata
       /\ targetData' = f.tdata
       /\ pc' = (IF f.columns THEN "panel" ELSE "panelNoColumns")
       /\ analyses' = (IF f.columns
                       THEN Append(analyses,
                              [ auto |-> autoAcceptHighConfidence, src |-> f.src,
                                tgt |-> f.tgt, sdata |-> f.sdata, tdata |-> f.tdata ])
                       ELSE analyses)
       /\ isAnalyzing' = (IF f.columns THEN TRUE ELSE isAnalyzing)
  /\ UNCHANGED << userMatches, autoAcceptHighConfidence, suggestion, engineVars, workflowVars >>

\* The threshold of line 59: match.confidence >= 0.9.
AUTO_ACCEPT_THRESHOLD == Frac(9, 10)

\* alignment.matches.filter(...).map(...), lines 58-60.
highConfidenceMatches(alignment) ==
  LET high == SelectSeq(alignment.matches,
                        LAMBDA m : FracGeq(m.confidence, AUTO_ACCEPT_THRESHOLD))
  IN [ k \in 1..Len(high) |-> Pair(high[k].sourceColumn, high[k].targetColumn) ]

\* The update of lines 62-67: the confirmed pairs that share no column
\* with a high-confidence match, followed by the high-confidence matches.
MergeHighConfidence(prev, high) ==
  LET existing == SelectSeq(prev,
                    LAMBDA um : ~ \E h \in 1..Len(high) :
                                    \/ high[h].file1 = um.file1
                                    \/ high[h].file2 = um.file2)
  IN existing \o high

\* The timer of the oldest waiting call fires (lines 45-70). Each element
\* of analyses is the closure of one call of analyzeSuggestions: the files
\* and the value of autoAcceptHighConfidence of the render that created the
\* function. The engine runs on the closure's files, and the matches are
\* accepted when the closure's autoAcceptHighConfidence is true.
CompleteAnalysis ==
  /\ pc \in { "panel", "panelNoColumns" }
  /\ analyses # << >>
  /\ LET call == Head(analyses)
         alignment == Analyze(call.src, call.tgt, call.sdata, call.tdata)
     IN /\ suggestion' = [ present |-> TRUE, matches |-> alignment.matches ]
        /\ userMatches' = (IF call.auto
                           THEN MergeHighConfidence(userMatches,
                                                    highConfidenceMatches(alignment))
                           ELSE userMatches)
  /\ analyses' = Tail(analyses)
  /\ isAnalyzing' = FALSE
  /\ UNCHANGED << autoAcceptHighConfidence, propVars, engineVars, workflowVars >>

\* The switch Auto-accept (line 155), which is never disabled.
ToggleAutoAccept ==
  /\ pc \in { "panel", "panelNoColumns" }
  /\ autoAcceptHighConfidence' = ~autoAcceptHighConfidence
  /\ UNCHANGED << userMatches, isAnalyzing, suggestion, analyses, propVars,
                  engineVars, workflowVars >>

\* A mutant of ReplacePair: only the pairs of the same source column go.
ReplacePairBySourceOnly(prev, sourceCol, targetCol) ==
  Append(SelectSeq(prev, LAMBDA um : um.file1 # sourceCol),
         Pair(sourceCol, targetCol))

\* The update of lines 75-78 and 92-95: the pairs of neither column,
\* followed by the new pair.
ReplacePair(prev, sourceCol, targetCol) ==
  Append(SelectSeq(prev, LAMBDA um : um.file1 # sourceCol /\ um.file2 # targetCol),
         Pair(sourceCol, targetCol))

\* suggestion.matches without the pairs in userMatches (lines 136-139).
pendingSuggestions ==
  SelectSeq(suggestion.matches,
            LAMBDA m : ~ \E u \in 1..Len(userMatches) :
                           /\ userMatches[u].file1 = m.sourceColumn
                           /\ userMatches[u].file2 = m.targetColumn)

\* The button Accept of a pending suggestion (lines 73-79).
acceptSuggestion ==
  /\ pc \in { "panel", "panelNoColumns" }
  /\ \E k \in 1..Len(pendingSuggestions) :
       userMatches' = ReplacePair(userMatches, pendingSuggestions[k].sourceColumn,
                                  pendingSuggestions[k].targetColumn)
  /\ UNCHANGED << autoAcceptHighConfidence, isAnalyzing, suggestion, analyses,
                  propVars, engineVars, workflowVars >>

\* The button Reject of a pending suggestion (lines 81-83) changes nothing.
rejectSuggestion ==
  /\ pc \in { "panel", "panelNoColumns" }
  /\ pendingSuggestions # << >>
  /\ UNCHANGED vars

\* The button Remove of a confirmed pair (lines 85-87).
removeUserMatch ==
  /\ pc \in { "panel", "panelNoColumns" }
  /\ \E k \in 1..Len(userMatches) :
       userMatches' = SelectSeq(userMatches,
                        LAMBDA um : \/ um.file1 # userMatches[k].file1
                                    \/ um.file2 # userMatches[k].file2)
  /\ UNCHANGED << autoAcceptHighConfidence, isAnalyzing, suggestion, analyses,
                  propVars, engineVars, workflowVars >>

\* addManualMatch (lines 89-97) on two column names, either of which may
\* be the empty string.
addManualMatch ==
  /\ pc = "panel"
  /\ \E sourceCol \in Range(sourceColumns) \cup { nEmpty },
        targetCol \in Range(targetColumns) \cup { nEmpty } :
       userMatches' = (IF sourceCol = nEmpty \/ targetCol = nEmpty
                       THEN userMatches
                       ELSE ReplacePair(userMatches, sourceCol, targetCol))
  /\ UNCHANGED << autoAcceptHighConfidence, isAnalyzing, suggestion, analyses,
                  propVars, engineVars, workflowVars >>

NextPanel ==
  \/ Reanalyze
  \/ PropsChange
  \/ CompleteAnalysis
  \/ ToggleAutoAccept
  \/ acceptSuggestion
  \/ rejectSuggestion
  \/ removeUserMatch
  \/ addManualMatch

SpecPanel == InitPanel /\ [][NextPanel]_vars

\* ------------------------------------------------------------------------
\* Claims about the panel
\* ------------------------------------------------------------------------

\* The result of the engine for the call whose timer fires next.
ArrivingAlignment ==
  LET call == Head(analyses)
  IN Analyze(call.src, call.tgt, call.sdata, call.tdata)

\* The pairs of the arriving matches whose confidence is at least 0.9.
ArrivingHigh ==
  { Pair(m.sourceColumn, m.targetColumn) :
      m \in { x \in Range(ArrivingAlignment.matches) :
                FracGeq(x.confidence, Frac(9, 10)) } }

\* The confirmed pairs that share no column with an arriving pair of
\* confidence at least 0.9.
KeptPairs ==
  { u \in Range(userMatches) :
      \A h \in ArrivingHigh : h.file1 # u.file1 /\ h.file2 # u.file2 }

\* What the completion of an analysis does to userMatches when matches are
\* accepted automatically.
AutoAccepted ==
  /\ Range(userMatches') = KeptPairs \cup ArrivingHigh
  /\ \A m \in Range(ArrivingAlignment.matches) :
       /\ m.type = "exact" => Pair(m.sourceColumn, m.targetColumn) \in ArrivingHigh
       /\ m.type = "semantic" => Pair(m.sourceColumn, m.targetColumn) \notin ArrivingHigh

\* C24: when an analysis completes while auto-accept is enabled, userMatches
\* becomes the confirmed pairs that share no column with a match of
\* confidence at least 0.9, together with exactly those matches; every exact
\* match is among them and no semantic match is.
C24_AutoAcceptOnCompletion ==
  [][ (CompleteAnalysis /\ autoAcceptHighConfidence) => AutoAccepted ]_vars

\* No two pairs of the list share a file1 value or a file2 value.
OneToOne(ums) ==
  \A i, j \in 1..Len(ums) :
    i # j => ums[i].file1 # ums[j].file1 /\ ums[i].file2 # ums[j].file2

\* C27: in the panel, no two pairs of userMatches share a file1 value or a
\* file2 value, whatever suggestions were accepted, pairs added by hand or
\* removed, and analyses completed.
C27_UserMatchesOneToOne ==
  pc \in { "panel", "panelNoColumns" } => OneToOne(userMatches)

\* Two pairs are confirmed in an order that initialMatches never has, after
\* an analysis has completed.
C27_Witness ==
  /\ pc = "panel"
  /\ suggestion.present
  /\ userMatches = << Pair(nCustEmail, nAddress), Pair(nName, nName) >>

\* C28: an analysis that completes while auto-accept is switched off adds no
\* pair to userMatches.
C28_SwitchAtArrivalGoverns ==
  [][ (CompleteAnalysis /\ ~autoAcceptHighConfidence)
        => Range(userMatches') \subseteq Range(userMatches) ]_vars

\* ------------------------------------------------------------------------
\* The class WorkflowManager (src/lib/workflow-manager.ts)
\* ------------------------------------------------------------------------
\* One workflow is followed. A step is its id and its status; a result of
\* executeWorkflow is the id of the step it was made for. The map stores
\* references: updateWorkflow stores a copy of the workflow object whose
\* steps are the same array, and removeStep gives the stored object a new
\* array, so the array a running for-of loop iterates (loopSteps) is the
\* stored array (wfSteps) exactly as long as aliased is true.

\* Largest number of steps ever added to the workflow.
MaxSteps == 3

\* The new step of addStep, lines 75-80.
NewStep(id) == [ id |-> id, status |-> "pending" ]

\* A mutant of updateStep: every step of the array gets the status.
updateStepOfAll(steps, stepId, status) ==
  [ k \in 1..Len(steps) |-> [ steps[k] EXCEPT !.status = status ] ]

\* updateStep, lines 94-100, on the array of the stored workflow: the first
\* step of that id gets the status, and nothing changes without one.
updateStep(steps, stepId, status) ==
  LET found == { k \in 1..Len(steps) : steps[k].id = stepId }
  IN IF found = {}
     THEN steps
     ELSE LET stepIndex == CHOOSE k \in found : \A j \in found : k <= j
          IN [ steps EXCEPT ![stepIndex].status = status ]

\* The iterated array after updateStep has run on the stored one.
LoopAfterUpdate(stepId, status) ==
  IF aliased THEN updateStep(loopSteps, stepId, status) ELSE loopSteps

\* No call has been made on the class.
InitWorkflow ==
  /\ sourceColumns = << >>
  /\ targetColumns = << >>
  /\ sourceData = Absent
  /\ targetData = Absent
  /\ pc = "workflow"
  /\ matches = << >>
  /\ usedTargetColumns = {}
  /\ remaining = << >>
  /\ idx = 1
  /\ result = NoResult
  /\ probe = NoProbe
  /\ earlier = << >>
  /\ NoPanel
  /\ NoWorkflow

outsideVars ==
  << sourceColumns, targetColumns, sourceData, targetData, pc, matches,
     usedTargetColumns, remaining, idx, result, probe, earlier, panelVars >>

\* createWorkflow, lines 27-40.
createWorkflow ==
  /\ pc = "workflow"
  /\ wfStatus = "none"
  /\ wfStatus' = "draft"
  /\ wfSteps' = << >>
  /\ UNCHANGED << nextId, wfPc, loopSteps, aliased, loopIdx, results,
                  completedCalls, outsideVars >>

\* addStep, lines 68-88: the step is pushed on the stored array and the
\* status of the stored workflow becomes "ready".
addStep ==
  /\ pc = "workflow"
  /\ wfStatus # "none"
  /\ nextId <= MaxSteps
  /\ wfSteps' = Append(wfSteps, NewStep(nextId))
  /\ loopSteps' = (IF aliased THEN Append(loopSteps, NewStep(nextId)) ELSE loopSteps)
  /\ wfStatus' = "ready"
  /\ nextId' = nextId + 1
  /\ UNCHANGED << wfPc, aliased, loopIdx, results, completedCalls, outsideVars >>

\* removeStep, lines 108-122: the stored workflow gets a new array, the
\* result of filter, whether or not a step of that id exists.
removeStep ==
  /\ pc = "workflow"
  /\ wfStatus # "none"
  /\ \E stepId \in 1..MaxSteps :
       wfSteps' = SelectSeq(wfSteps, LAMBDA st : st.id # stepId)
  /\ aliased' = FALSE
  /\ UNCHANGED << wfStatus, nextId, wfPc, loopSteps, loopIdx, results,
                  completedCalls, outsideVars >>

\* executeWorkflow up to its first await, or to its end when the workflow
\* has no step or does not exist (lines 129-142 and 164-165).
executeWorkflow ==
  /\ pc = "workflow"
  /\ wfPc # "delay"
  /\ results' = << >>
  /\ completedCalls' = << >>
  /\ IF wfStatus = "none"
     THEN /\ wfPc' = "rejected"
          /\ UNCHANGED << wfStatus, wfSteps, loopSteps, aliased, loopIdx >>
     ELSE IF wfSteps = << >>
     THEN /\ wfStatus' = "completed"
          /\ wfPc' = "resolved"
          /\ UNCHANGED << wfSteps, loopSteps, aliased, loopIdx >>
     ELSE /\ wfStatus' = "running"
          /\ wfSteps' = updateStep(wfSteps, wfSteps[1].id, "running")
          /\ loopSteps' = updateStep(wfSteps, wfSteps[1].id, "running")
          /\ aliased' = TRUE
          /\ loopIdx' = 1
          /\ wfPc' = "delay"
  /\ UNCHANGED << nextId, outsideVars >>

\* The timer of line 142 fires: the rest of the iteration (lines 144-161),
\* then either the next iteration up to its await or the end of the call
\* (lines 164-165). The loop reads the length of its array at each turn.
StepTimer ==
  /\ pc = "workflow"
  /\ wfPc = "delay"
  /\ LET step == loopSteps[loopIdx]
         stored == updateStep(wfSteps, step.id, "completed")
         loop == LoopAfterUpdate(step.id, "completed")
     IN /\ results' = Append(results, step.id)
        /\ completedCalls' = Append(completedCalls, step.id)
        /\ IF loopIdx < Len(loop)
           THEN /\ wfSteps' = updateStep(stored, loop[loopIdx + 1].id, "running")
                /\ loopSteps' = (IF aliased
                                 THEN updateStep(loop, loop[loopIdx + 1].id, "running")
                                 ELSE loop)
                /\ loopIdx' = loopIdx + 1
                /\ UNCHANGED << wfStatus, wfPc, aliased >>
           ELSE /\ wfStatus' = "completed"
                /\ wfSteps' = stored
                /\ wfPc' = "resolved"
                /\ loopSteps' = << >>
                /\ aliased' = FALSE
                /\ loopIdx' = 0
  /\ UNCHANGED << nextId, outsideVars >>

NextWorkflow ==
  \/ createWorkflow
  \/ addStep
  \/ removeStep
  \/ executeWorkflow
  \/ StepTimer

\* Calls of the class in any order, also while executeWorkflow waits.
SpecWorkflow == InitWorkflow /\ [][NextWorkflow]_vars

\* addStep while no call of executeWorkflow waits for its timer.
addStepBetweenRuns == wfPc # "delay" /\ addStep

\* removeStep while no call of executeWorkflow waits for its timer.
removeStepBetweenRuns == wfPc # "delay" /\ removeStep

NextRun ==
  \/ createWorkflow
  \/ addStepBetweenRuns
  \/ removeStepBetweenRuns
  \/ executeWorkflow
  \/ StepTimer

\* Calls of the class none of which falls into a call of executeWorkflow.
SpecRun == InitWorkflow /\ [][NextRun]_vars

\* ------------------------------------------------------------------------
\* Claims about WorkflowManager
\* ------------------------------------------------------------------------

\* The ids of the first n steps of the array, in order.
IdsOf(steps, n) == [ k \in 1..n |-> steps[k].id ]

\* While executeWorkflow waits for the timer of its step loopIdx: the stored
\* workflow is running, the steps before that one are completed, that one
\* is running and no other is, and one result and one call of
\* onStepComplete were made for each step before it, in step order.
RunInOrder ==
  wfPc = "delay" =>
    /\ wfStatus = "running"
    /\ loopIdx \in 1..Len(wfSteps)
    /\ \A k \in 1..Len(wfSteps) :
         /\ k < loopIdx => wfSteps[k].status = "completed"
         /\ k = loopIdx => wfSteps[k].status = "running"
         /\ k > loopIdx => wfSteps[k].status # "running"
    /\ results = IdsOf(wfSteps, loopIdx - 1)
    /\ completedCalls = results

\* A call of executeWorkflow on a stored workflow resolves in this step.
Resolves == (executeWorkflow \/ StepTimer) /\ wfPc' = "resolved"

\* The stored workflow and all its steps are completed, and there is one
\* result and one call of onStepComplete for each step, in step order.
RunComplete ==
  /\ wfStatus = "completed"
  /\ \A k \in 1..Len(wfSteps) : wfSteps[k].status = "completed"
  /\ results = IdsOf(wfSteps, Len(wfSteps))
  /\ completedCalls = results

C30_RunningUntilSettled ==
  [][ /\ wfPc' = "delay" => wfStatus' = "running"
      /\ Resolves =>
            /\ wfStatus' = "completed"
            /\ \A k \in 1..Len(wfSteps') :
                 wfSteps'[k].status \notin { "pending", "running" } ]_vars

====
